---- MODULE Spec2Model ----
(***************************************************************************)
(* A model of flamelet's sampling-and-accumulation engine:                 *)
(*   - the variation library and its safety wrapper (variations.ts),       *)
(*   - the affine+variation composer (flame.ts, applyFlameFunction),       *)
(*   - the chaos-game driver (renderer.ts, renderFlame),                   *)
(*   - the shared accumulation context (strategies/base/context.ts).       *)
(*                                                                         *)
(* JavaScript numbers are modelled by a small binary-float look-alike: a    *)
(* fixed-point grid with Quantum steps per unit, a largest finite value    *)
(* MaxF, and the three special values +Infinity, -Infinity and NaN.        *)
(* Arithmetic rounds to the grid, overflows to the infinities and          *)
(* propagates NaN the way IEEE-754 does.                                   *)
(***************************************************************************)
EXTENDS Integers, Sequences, FiniteSets, TLC

----------------------------------------------------------------------------
(* Bounds of the number model *)

\* grid steps per unit: the value v/Quantum is stored as the integer v
Quantum == 2
\* largest finite magnitude, in units (stands for Number.MAX_VALUE)
MaxF == 400

MaxRaw == MaxF * Quantum
PosInf == MaxRaw + 1
NegInf == -PosInf
NaN == MaxRaw + 2
\* JavaScript's undefined and null, for optional values
Undef == MaxRaw + 3
Null == MaxRaw + 4

\* the number n (an integer literal of the source)
Whole(n) == n * Quantum

\* Number.isFinite / isFinite on a number
IsFinite(v) == v >= -MaxRaw /\ v <= MaxRaw

Abs(n) == IF n < 0 THEN -n ELSE n

\* n/d rounded to the nearest integer, ties to even (d > 0)
RoundDiv(n, d) ==
  LET q == n \div d
      r == n % d
  IN  IF 2 * r < d THEN q
      ELSE IF 2 * r > d THEN q + 1
      ELSE IF q % 2 = 0 THEN q ELSE q + 1

\* a decimal literal num/den of the source, rounded to the grid
Lit(num, den) == RoundDiv(num * Quantum, den)

\* overflow of a finite result to the infinities
Overflow(n) == IF n > MaxRaw THEN PosInf ELSE IF n < -MaxRaw THEN NegInf ELSE n

Sign(v) == IF v < 0 THEN -1 ELSE IF v > 0 THEN 1 ELSE 0

\* -a
FNeg(a) == IF a = NaN THEN NaN ELSE -a

\* a + b
FAdd(a, b) ==
  IF a = NaN \/ b = NaN THEN NaN
  ELSE IF a = PosInf THEN (IF b = NegInf THEN NaN ELSE PosInf)
  ELSE IF a = NegInf THEN (IF b = PosInf THEN NaN ELSE NegInf)
  ELSE IF b = PosInf \/ b = NegInf THEN b
  ELSE Overflow(a + b)

\* a - b
FSub(a, b) == FAdd(a, FNeg(b))

\* a * b
FMul(a, b) ==
  IF a = NaN \/ b = NaN THEN NaN
  ELSE IF ~IsFinite(a) \/ ~IsFinite(b)
       THEN (IF a = 0 \/ b = 0 THEN NaN
             ELSE IF Sign(a) * Sign(b) > 0 THEN PosInf ELSE NegInf)
  ELSE Overflow(RoundDiv(a * b, Quantum))

\* a / b
FDiv(a, b) ==
  IF a = NaN \/ b = NaN THEN NaN
  ELSE IF ~IsFinite(a) /\ ~IsFinite(b) THEN NaN
  ELSE IF ~IsFinite(a) THEN (IF b >= 0 THEN a ELSE FNeg(a))
  ELSE IF ~IsFinite(b) THEN 0
  ELSE IF b = 0 THEN (IF a = 0 THEN NaN ELSE IF a > 0 THEN PosInf ELSE NegInf)
  ELSE IF b > 0 THEN Overflow(RoundDiv(a * Quantum, b))
  ELSE Overflow(RoundDiv((-a) * Quantum, -b))

\* a < b, a > b, a >= b: false when either side is NaN
FLt(a, b) == a # NaN /\ b # NaN /\ a < b
FGt(a, b) == FLt(b, a)
FGe(a, b) == a # NaN /\ b # NaN /\ a >= b

\* Math.min, Math.max, Math.abs, Math.floor
FMin(a, b) == IF a = NaN \/ b = NaN THEN NaN ELSE IF a < b THEN a ELSE b
FMax(a, b) == IF a = NaN \/ b = NaN THEN NaN ELSE IF a > b THEN a ELSE b
FAbs(a) == IF a = NaN THEN NaN ELSE Abs(a)
FFloor(a) == IF IsFinite(a) THEN (a \div Quantum) * Quantum ELSE a

\* v ?? d
Coalesce(v, d) == IF v = Undef \/ v = Null THEN d ELSE v

----------------------------------------------------------------------------
(* variations.ts: the variation library.                                   *)
(* A call returns [thrown, vx, vy]; thrown stands for a raised TypeError.  *)
(* params is [kind, iterations, escapeRadius, cx, cy] with kind one of     *)
(* "undefined" (argument omitted), "null" and "object"; a field that is    *)
(* absent from the object is Undef.                                        *)
(* The registry is represented by nine of its entries: the ones whose      *)
(* arithmetic is exact on the grid, blur for the random ones and           *)
(* sinusoidal for the trigonometric ones.                                  *)

Returned(vx, vy) == [thrown |-> FALSE, vx |-> vx, vy |-> vy]
Thrown == [thrown |-> TRUE, vx |-> NaN, vy |-> NaN]

NoParams == [kind |-> "undefined", iterations |-> Undef, escapeRadius |-> Undef,
             cx |-> Undef, cy |-> Undef]
NullParams == [NoParams EXCEPT !.kind = "null"]

\* (cos t, sin t) at the four axis angles; Math.random() in [0, 1) on the grid
CircleDirs == {<<Quantum, 0>>, <<0, Quantum>>, <<-Quantum, 0>>, <<0, -Quantum>>}
RandomUnit == 0..(Quantum - 1)
\* one call's draws of Math.random and its values of sin and cos
Draws == [r : RandomUnit, dir : CircleDirs]

\* the draws when a call draws nothing
NoDraw == [r |-> 0, dir |-> <<Quantum, 0>>]
\* the names whose call reads Math.random or a sine
Drawing == {"blur", "sinusoidal"}
DrawsOf(name) == IF name \in Drawing THEN Draws ELSE {NoDraw}

\* the draws of the calls that the entries of a weight map make, from entry k on
RECURSIVE DrawsOfEntries(_, _)
DrawsOfEntries(entries, k) ==
  IF k > Len(entries) THEN {<<>>}
  ELSE {<<d>> \o rest : d \in DrawsOf(entries[k].name),
                        rest \in DrawsOfEntries(entries, k + 1)}

\* Math.sin(v), the value at a finite non-zero argument chosen by s
Sin(v, s) == IF ~IsFinite(v) THEN NaN ELSE IF v = 0 THEN 0 ELSE s

linear(x, y) == Returned(x, y)

sinusoidal(x, y, rnd) == Returned(Sin(x, rnd.dir[1]), Sin(y, rnd.dir[2]))

mirrorx(x, y) == Returned(FAbs(x), y)

mirrory(x, y) == Returned(x, FAbs(y))

bent(x, y) ==
  Returned(IF FLt(x, 0) THEN FMul(x, Whole(2)) ELSE x,
           IF FLt(y, 0) THEN FDiv(y, Whole(2)) ELSE y)

\* theta = Math.random() * 2 * PI; r = Math.random()
blur(x, y, rnd) == Returned(FMul(rnd.r, rnd.dir[1]), FMul(rnd.r, rnd.dir[2]))

\* the loop of the escape-time warps, from iteration i on; ship takes |z|
RECURSIVE WarpLoop(_, _, _, _, _, _, _, _)
WarpLoop(ship, zx, zy, cx, cy, i, iterations, escapeRadius) ==
  IF ~FLt(Whole(i), iterations) THEN <<zx, zy>>
  ELSE LET ax == IF ship THEN FAbs(zx) ELSE zx
           ay == IF ship THEN FAbs(zy) ELSE zy
           x2 == FAdd(FSub(FMul(ax, ax), FMul(ay, ay)), cx)
           y2 == FAdd(FMul(FMul(Whole(2), ax), ay), cy)
       IN  IF \/ ~IsFinite(x2)
              \/ ~IsFinite(y2)
              \/ FGt(FAdd(FMul(x2, x2), FMul(y2, y2)), FMul(escapeRadius, escapeRadius))
           THEN <<x2, y2>>
           ELSE WarpLoop(ship, x2, y2, cx, cy, i + 1, iterations, escapeRadius)

mandelbrotWarp(x, y, params) ==
  IF params.kind = "null" THEN Thrown
  ELSE LET iterations == Coalesce(params.iterations, Whole(15))
           escapeRadius == Coalesce(params.escapeRadius, Whole(2))
           zx == IF IsFinite(x) THEN x ELSE 0
           zy == IF IsFinite(y) THEN y ELSE 0
           z == WarpLoop(FALSE, zx, zy, zx, zy, 0, iterations, escapeRadius)
       IN  Returned(z[1], z[2])

juliaWarp(x, y, params) ==
  IF params.kind = "null" THEN Thrown
  ELSE LET iterations == Coalesce(params.iterations, Whole(15))
           escapeRadius == Coalesce(params.escapeRadius, Whole(2))
           cx == Coalesce(params.cx, Lit(-4, 10))
           cy == Coalesce(params.cy, Lit(6, 10))
           zx == IF IsFinite(x) THEN x ELSE 0
           zy == IF IsFinite(y) THEN y ELSE 0
           z == WarpLoop(FALSE, zx, zy, cx, cy, 0, iterations, escapeRadius)
       IN  Returned(z[1], z[2])

burningShipWarp(x, y, params) ==
  IF params.kind = "null" THEN Thrown
  ELSE LET iterations == Coalesce(params.iterations, Whole(15))
           escapeRadius == Coalesce(params.escapeRadius, Whole(2))
           zx == IF IsFinite(x) THEN x ELSE 0
           zy == IF IsFinite(y) THEN y ELSE 0
           z == WarpLoop(TRUE, zx, zy, zx, zy, 0, iterations, escapeRadius)
       IN  Returned(z[1], z[2])

\* the names of rawVariations that the model carries
Registered == {"linear", "sinusoidal", "mirrorx", "mirrory", "bent", "blur",
               "mandelbrotWarp", "juliaWarp", "burningShipWarp"}

\* rawVariations[name](x, y, params)
rawVariations(name, x, y, params, rnd) ==
  CASE name = "linear" -> linear(x, y)
    [] name = "sinusoidal" -> sinusoidal(x, y, rnd)
    [] name = "mirrorx" -> mirrorx(x, y)
    [] name = "mirrory" -> mirrory(x, y)
    [] name = "bent" -> bent(x, y)
    [] name = "blur" -> blur(x, y, rnd)
    [] name = "mandelbrotWarp" -> mandelbrotWarp(x, y, params)
    [] name = "juliaWarp" -> juliaWarp(x, y, params)
    [] name = "burningShipWarp" -> burningShipWarp(x, y, params)

\* safeVariation without the try/catch: a throw of fn propagates
safeVariationNoCatch(raw) ==
  IF raw.thrown THEN Thrown
  ELSE IF ~IsFinite(raw.vx) \/ ~IsFinite(raw.vy) THEN Returned(0, 0)
  ELSE Returned(raw.vx, raw.vy)

\* safeVariation falling back only when both coordinates are non-finite
safeVariationBothNonFinite(raw) ==
  IF raw.thrown THEN Returned(0, 0)
  ELSE IF ~IsFinite(raw.vx) /\ ~IsFinite(raw.vy) THEN Returned(0, 0)
  ELSE Returned(raw.vx, raw.vy)

\* safeVariation(fn, name) applied to (x, y, params), fn's outcome being raw
safeVariation(raw) ==
  IF raw.thrown THEN Returned(0, 0)
  ELSE IF ~IsFinite(raw.vx) \/ ~IsFinite(raw.vy) THEN Returned(0, 0)
  ELSE Returned(raw.vx, raw.vy)

\* variations[name](x, y, params): the registry entry, safety-wrapped
variations(name, x, y, params, rnd) ==
  safeVariation(rawVariations(name, x, y, params, rnd))

----------------------------------------------------------------------------
(* flame.ts: the affine+variation composer.                                *)
(* A FlameFunction is [affine, variations, probability], variations being  *)
(* the entries of the weight map in Object.entries order, each with the    *)
(* parameters fn.parameters holds for its name:                            *)
(* [name, weight, params].                                                 *)

CLAMP_LIMIT == 100

\* names that the registry object inherits from Object.prototype: called as
\* a variation, toString returns a string and constructor a Number object
Inherited == {"toString", "constructor"}

\* a lookup that sees the registry's own properties only
LookupOwnProperty(name) ==
  IF name \in Registered THEN "variation" ELSE "undefined"

\* what variations[name] evaluates to
Lookup(name) ==
  IF name \in Registered THEN "variation"
  ELSE IF name \in Inherited THEN name
  ELSE "undefined"

\* the affine x without its translation c
AffineXNoTranslation(affine, x, y) ==
  FAdd(FMul(affine[1], x), FMul(affine[2], y))

\* a * x + b * y + c
AffineX(affine, x, y) ==
  FAdd(FAdd(FMul(affine[1], x), FMul(affine[2], y)), affine[3])

\* d * x + e * y + f
AffineY(affine, x, y) ==
  FAdd(FAdd(FMul(affine[4], x), FMul(affine[5], y)), affine[6])

\* a clamp to a tenth of the limit
ClampTenth(v) == FMax(Whole(-10), FMin(Whole(10), v))

\* Math.max(-CLAMP_LIMIT, Math.min(CLAMP_LIMIT, v))
Clamp(v) == FMax(Whole(-CLAMP_LIMIT), FMin(Whole(CLAMP_LIMIT), v))

\* newX += weight * vx, newY += weight * vy, or the continue for an output v
\* that is not finite: [kind, x, y] with kind "ok"
AddWeighted(weight, v, newX, newY) ==
  IF ~IsFinite(v.vx) \/ ~IsFinite(v.vy)
    THEN [kind |-> "ok", x |-> newX, y |-> newY]
  ELSE [kind |-> "ok", x |-> FAdd(newX, FMul(weight, v.vx)),
        y |-> FAdd(newY, FMul(weight, v.vy))]

\* one pass of the loop over Object.entries(fn.variations), for the entry e
\* and the draws rnd of its call: [kind, x, y], kind "ok" with the new sums,
\* or "unknown" for the thrown 'Unknown variation function', or "typeerror"
\* for the TypeError of destructuring what an inherited constructor returns
VariationPass(e, variationFn, cx, cy, newX, newY, rnd) ==
  IF e.weight = 0 THEN [kind |-> "ok", x |-> newX, y |-> newY]
  ELSE IF variationFn = "undefined" THEN [kind |-> "unknown", x |-> NaN, y |-> NaN]
  ELSE IF variationFn = "constructor" THEN [kind |-> "typeerror", x |-> NaN, y |-> NaN]
  ELSE IF variationFn = "toString" THEN [kind |-> "ok", x |-> newX, y |-> newY]
  ELSE AddWeighted(e.weight, variations(e.name, cx, cy, e.params, rnd), newX, newY)

\* the loop over Object.entries(fn.variations) from entry k on, rnds[k] being
\* the draws of entry k's call: the sums when the loop ends, or the throw
RECURSIVE VariationLoop(_, _, _, _, _, _, _)
RECURSIVE AfterPass(_, _, _, _, _, _)
VariationLoop(entries, k, cx, cy, newX, newY, rnds) ==
  IF k > Len(entries) THEN [kind |-> "ok", x |-> newX, y |-> newY]
  ELSE AfterPass(entries, k, cx, cy, rnds,
                 VariationPass(entries[k], Lookup(entries[k].name), cx, cy,
                               newX, newY, rnds[k]))

\* the loop after the pass for entry k has ended as pass
AfterPass(entries, k, cx, cy, rnds, pass) ==
  IF pass.kind # "ok" THEN pass
  ELSE VariationLoop(entries, k + 1, cx, cy, pass.x, pass.y, rnds)

\* the end of applyFlameFunction without the fallback
ResultNoFallback(x0, y0, sum) == sum

\* the end of applyFlameFunction: the sums, or [x0, y0] when they are not finite
Result(x0, y0, sum) ==
  IF sum.kind # "ok" THEN sum
  ELSE IF ~IsFinite(sum.x) \/ ~IsFinite(sum.y)
    THEN [kind |-> "ok", x |-> x0, y |-> y0]
  ELSE sum

\* applyFlameFunction from the affine image (x0, y0) on
ComposeAt(fn, x0, y0, rnds) ==
  Result(x0, y0, VariationLoop(fn.variations, 1, Clamp(x0), Clamp(y0), 0, 0, rnds))

\* applyFlameFunction(fn, x, y): [kind, x, y], kind "ok" for a return
applyFlameFunction(fn, x, y, rnds) ==
  ComposeAt(fn, AffineX(fn.affine, x, y), AffineY(fn.affine, x, y), rnds)

----------------------------------------------------------------------------
(* strategies/base/palette.ts: palettes.                                   *)
(* A colour is <<r, g, b>>. A hex string is the sequence of its characters.*)
(* A palette definition is [kind, name, colors], kind "none" for an absent *)
(* palette, "name" for a string and "array" for an array of hex strings.   *)

\* a % b
FMod(a, b) ==
  IF a = NaN \/ b = NaN \/ ~IsFinite(a) \/ b = 0 THEN NaN
  ELSE IF ~IsFinite(b) THEN a
  ELSE Sign(a) * (Abs(a) % Abs(b))

Black == <<0, 0, 0>>

\* the rainbow HSV palette with s = v = 1
defaultPalette(t) ==
  LET h == FMod(FAdd(FMod(t, Whole(1)), Whole(1)), Whole(1))
      sector == FMul(h, Whole(6))
      i == FFloor(sector)
      f == FSub(sector, i)
      v == Whole(1)
      p == 0
      q == FSub(Whole(1), f)
      T == FSub(Whole(1), FSub(Whole(1), f))
      k == FMod(i, Whole(6))
  IN  CASE k = Whole(0) -> <<v, T, p>>
        [] k = Whole(1) -> <<q, v, p>>
        [] k = Whole(2) -> <<p, v, T>>
        [] k = Whole(3) -> <<p, q, v>>
        [] k = Whole(4) -> <<T, p, v>>
        [] k = Whole(5) -> <<v, p, q>>
        [] OTHER -> Black

HexDigits == <<"0", "1", "2", "3", "4", "5", "6", "7", "8", "9",
               "a", "b", "c", "d", "e", "f">>
IsHexDigit(ch) == \E k \in 1..16 : HexDigits[k] = ch
HexValue(ch) == (CHOOSE k \in 1..16 : HexDigits[k] = ch) - 1

\* parseInt(c1 + c2, 16): the longest prefix of hex digits, NaN if empty
parseInt16(c1, c2) ==
  IF ~IsHexDigit(c1) THEN NaN
  ELSE IF ~IsHexDigit(c2) THEN Whole(HexValue(c1))
  ELSE Whole(16 * HexValue(c1) + HexValue(c2))

\* parseHexColor(hex): [thrown, color], thrown for 'Invalid hex color'
parseHexColor(hex) ==
  LET h == IF Len(hex) > 0 /\ hex[1] = "#" THEN Tail(hex) ELSE hex
      rgb == IF Len(h) = 3
               THEN <<parseInt16(h[1], h[1]), parseInt16(h[2], h[2]),
                      parseInt16(h[3], h[3])>>
               ELSE <<parseInt16(h[1], h[2]), parseInt16(h[3], h[4]),
                      parseInt16(h[5], h[6])>>
  IN  IF Len(h) = 3 \/ Len(h) = 6
        THEN [thrown |-> FALSE,
              color |-> <<FDiv(rgb[1], Whole(255)), FDiv(rgb[2], Whole(255)),
                          FDiv(rgb[3], Whole(255))>>]
        ELSE [thrown |-> TRUE, color |-> Black]

\* the names of the palette registry
PaletteRegistry == {"rainbow"}

NoPalette == [kind |-> "none", name |-> "", colors |-> <<>>]
NamedPalette(name) == [kind |-> "name", name |-> name, colors |-> <<>>]
ArrayPalette(colors) == [kind |-> "array", name |-> "", colors |-> colors]

\* getPalette(nameOrArray): [error, rgb]; error is "none", "unknown palette"
\* or "invalid hex color"; rgb holds the parsed stops of an array palette and
\* is empty for the rainbow palette
getPalette(paletteDef) ==
  IF paletteDef.kind = "name"
    THEN [error |-> IF paletteDef.name \in PaletteRegistry
                      THEN "none" ELSE "unknown palette",
          rgb |-> <<>>]
  ELSE IF paletteDef.kind = "array" /\ Len(paletteDef.colors) > 0
    THEN IF \E k \in 1..Len(paletteDef.colors) :
              parseHexColor(paletteDef.colors[k]).thrown
           THEN [error |-> "invalid hex color", rgb |-> <<>>]
           ELSE [error |-> "none",
                 rgb |-> [k \in 1..Len(paletteDef.colors) |->
                            parseHexColor(paletteDef.colors[k]).color]]
  ELSE [error |-> "none", rgb |-> <<>>]

\* c1 * (1 - f) + c2 * f
Mix(c1, c2, f) == FAdd(FMul(c1, FSub(Whole(1), f)), FMul(c2, f))

\* the function that createPaletteFromArray returns, for a finite t
arrayPalette(rgbColors, t) ==
  LET n == Len(rgbColors)
      clamped == FMin(FMax(t, 0), Whole(1))
      pos == FMul(clamped, Whole(n - 1))
      i == FFloor(pos)
      f == FSub(pos, i)
      c1 == rgbColors[(i \div Quantum) + 1]
      c2 == rgbColors[(FMin(FAdd(i, Whole(1)), Whole(n - 1)) \div Quantum) + 1]
  IN  IF n = 1 THEN rgbColors[1]
      ELSE <<Mix(c1[1], c2[1], f), Mix(c1[2], c2[2], f), Mix(c1[3], c2[3], f)>>

\* paletteFn(t) of a resolved palette
paletteFn(palette, t) ==
  IF Len(palette.rgb) = 0 THEN defaultPalette(t) ELSE arrayPalette(palette.rgb, t)

----------------------------------------------------------------------------
(* strategies/base/context.ts: the shared accumulation context.            *)
(* A context is [width, height, scale, gamma, xs, ys, cols, minX, minY,    *)
(* maxX, maxY]. width, height and scale are integers, the grid has         *)
(* width*scale by height*scale cells, indexed from 0 as in the source.     *)
(* An output buffer maps each pixel 0..width*height-1 to <<r, g, b, a>>.   *)

\* new StrategyContext(options)
StrategyContext(options) ==
  [width |-> options.width, height |-> options.height,
   scale |-> FMax(Whole(1), FFloor(options.supersample)) \div Quantum,
   gamma |-> options.gamma,
   xs |-> <<>>, ys |-> <<>>, cols |-> <<>>,
   minX |-> PosInf, minY |-> PosInf, maxX |-> NegInf, maxY |-> NegInf]

\* context.commitSample(x, y, color)
commitSample(ctx, x, y, color) ==
  [ctx EXCEPT !.xs = Append(@, x), !.ys = Append(@, y), !.cols = Append(@, color),
              !.minX = IF FLt(x, @) THEN x ELSE @,
              !.maxX = IF FGt(x, @) THEN x ELSE @,
              !.minY = IF FLt(y, @) THEN y ELSE @,
              !.maxY = IF FGt(y, @) THEN y ELSE @]

\* a || 1 without the fallback
OrOneNoFallback(a) == a

\* a || 1
OrOne(a) == IF a = 0 \/ a = NaN THEN Whole(1) ELSE a

rangeX(ctx) == OrOne(FSub(ctx.maxX, ctx.minX))
rangeY(ctx) == OrOne(FSub(ctx.maxY, ctx.minY))
highWidth(ctx) == ctx.width * ctx.scale
highHeight(ctx) == ctx.height * ctx.scale
Cells(ctx) == 0..(highWidth(ctx) * highHeight(ctx) - 1)
Pixels(ctx) == 0..(ctx.width * ctx.height - 1)

\* a px that is not taken relative to minX
GridXAbsolute(ctx, i) ==
  FFloor(FMul(FDiv(ctx.xs[i], rangeX(ctx)), Whole(highWidth(ctx) - 1)))

\* px and py of sample i
GridX(ctx, i) ==
  FFloor(FMul(FDiv(FSub(ctx.xs[i], ctx.minX), rangeX(ctx)),
              Whole(highWidth(ctx) - 1)))

\* py without the flip of the y axis
GridYUnflipped(ctx, i) ==
  FFloor(FMul(FDiv(FSub(ctx.ys[i], ctx.minY), rangeY(ctx)),
              Whole(highHeight(ctx) - 1)))

GridY(ctx, i) ==
  FFloor(FMul(FSub(Whole(1), FDiv(FSub(ctx.ys[i], ctx.minY), rangeY(ctx))),
              Whole(highHeight(ctx) - 1)))

\* the bounds test of the sample loop: TRUE when the loop continues
OutOfGrid(ctx, px, py) ==
  \/ FLt(px, 0) \/ FGe(px, Whole(highWidth(ctx)))
  \/ FLt(py, 0) \/ FGe(py, Whole(highHeight(ctx)))

\* idx of sample i: a cell, or -1 when the sample is skipped by the bounds
\* test, or -2 when idx is NaN, an index that a typed array ignores
CellOf(ctx, i) ==
  LET px == GridX(ctx, i)
      py == GridY(ctx, i)
  IN  IF OutOfGrid(ctx, px, py) THEN -1
      ELSE IF px = NaN \/ py = NaN THEN -2
      ELSE (py \div Quantum) * highWidth(ctx) + (px \div Quantum)

\* the sample loop of finalize from sample i on: [hist, colorBuf]
RECURSIVE SampleLoop(_, _, _, _)
SampleLoop(ctx, i, hist, colorBuf) ==
  IF i > Len(ctx.xs) THEN [hist |-> hist, colorBuf |-> colorBuf]
  ELSE LET idx == CellOf(ctx, i)
           col == ctx.cols[i]
       IN  IF idx < 0 THEN SampleLoop(ctx, i + 1, hist, colorBuf)
           ELSE SampleLoop(ctx, i + 1,
                  [hist EXCEPT ![idx] = @ + 1],
                  [colorBuf EXCEPT ![idx] = <<FAdd(@[1], col[1]), FAdd(@[2], col[2]),
                                              FAdd(@[3], col[3])>>])

\* hist and colorBuf when the sample loop has ended
Accumulated(ctx) ==
  SampleLoop(ctx, 1, [c \in Cells(ctx) |-> 0], [c \in Cells(ctx) |-> Black])

\* the cells of the block of pixel (x, y), in the order of the two inner loops
BlockCells(ctx, x, y) ==
  [n \in 1..(ctx.scale * ctx.scale) |->
     (y * ctx.scale + ((n - 1) \div ctx.scale)) * highWidth(ctx)
       + (x * ctx.scale + ((n - 1) % ctx.scale))]

\* the count of the first cell of the block only
SumCountFirstCell(hist, cells, n) == hist[cells[1]]

RECURSIVE SumCount(_, _, _)
SumCount(hist, cells, n) ==
  IF n = 0 THEN 0 ELSE SumCount(hist, cells, n - 1) + hist[cells[n]]

RECURSIVE SumChannel(_, _, _, _)
SumChannel(colorBuf, cells, ch, n) ==
  IF n = 0 THEN 0
  ELSE FAdd(SumChannel(colorBuf, cells, ch, n - 1), colorBuf[cells[n]][ch])

\* Math.pow(b, e) for the exponents 1/gamma that the model uses
Pow(b, e) == CASE e = Whole(1) -> b
               [] e = 0 -> Whole(1)

\* a store into a Uint8ClampedArray
ToUint8Clamped(v) ==
  IF v = NaN THEN 0
  ELSE IF v < 0 THEN 0
  ELSE IF v > Whole(255) THEN 255
  ELSE RoundDiv(v, Quantum)

\* Math.floor(Math.pow(hdr / (1 + hdr), 1 / gamma) * 255) with hdr = sum * inv
ToneMap(ctx, sum) ==
  LET inv == FDiv(Whole(1), Whole(ctx.scale * ctx.scale))
      hdr == FMul(sum, inv)
      mapped == FDiv(hdr, FAdd(Whole(1), hdr))
  IN  ToUint8Clamped(FFloor(FMul(Pow(mapped, FDiv(Whole(1), ctx.gamma)), Whole(255))))

\* the pixel loop blending each written pixel with the bytes already there
PixelAfterBlended(ctx, acc, outputBuffer, p) ==
  LET cells == BlockCells(ctx, p % ctx.width, p \div ctx.width)
      n == ctx.scale * ctx.scale
  IN  IF SumCount(acc.hist, cells, n) > 0
        THEN <<(outputBuffer[p][1] + ToneMap(ctx, SumChannel(acc.colorBuf, cells, 1, n))) \div 2,
               (outputBuffer[p][2] + ToneMap(ctx, SumChannel(acc.colorBuf, cells, 2, n))) \div 2,
               (outputBuffer[p][3] + ToneMap(ctx, SumChannel(acc.colorBuf, cells, 3, n))) \div 2,
               (outputBuffer[p][4] + 255) \div 2>>
        ELSE outputBuffer[p]

\* the four bytes of pixel p after the pixel loop
PixelAfter(ctx, acc, outputBuffer, p) ==
  LET cells == BlockCells(ctx, p % ctx.width, p \div ctx.width)
      n == ctx.scale * ctx.scale
      count == SumCount(acc.hist, cells, n)
  IN  IF count > 0
        THEN <<ToneMap(ctx, SumChannel(acc.colorBuf, cells, 1, n)),
               ToneMap(ctx, SumChannel(acc.colorBuf, cells, 2, n)),
               ToneMap(ctx, SumChannel(acc.colorBuf, cells, 3, n)), 255>>
        ELSE outputBuffer[p]

\* context.finalize(outputBuffer): the buffer afterwards
finalizeContext(ctx, outputBuffer) ==
  LET acc == Accumulated(ctx)
  IN  [p \in DOMAIN outputBuffer |->
         IF p \in Pixels(ctx) THEN PixelAfter(ctx, acc, outputBuffer, p)
         ELSE outputBuffer[p]]

\* ctx.createImageData(width, height).data
createImageData(width, height) == [p \in 0..(width * height - 1) |-> <<0, 0, 0, 0>>]

----------------------------------------------------------------------------
(* strategies/base/factories.ts and strategies/index.ts: the strategies.   *)
(* A strategy is [mode, funcColors, context].                              *)

\* the names that strategies/index.ts registers
StrategyRegistry == {"histogram", "orbit-angle", "orbit-distance", "angular-momentum"}

\* a lookup that falls back to the histogram strategy
getStrategyFactoryDefaulting(name) ==
  IF name \in StrategyRegistry THEN [thrown |-> FALSE, mode |-> name]
  ELSE [thrown |-> FALSE, mode |-> "histogram"]

\* getStrategyFactory(name): thrown for 'Unknown coloring strategy'
getStrategyFactory(name) ==
  IF name \in StrategyRegistry THEN [thrown |-> FALSE, mode |-> name]
  ELSE [thrown |-> TRUE, mode |-> name]

\* the t of function k (counted from 1) in histogramFactory's funcColors
FuncT(functions, k) ==
  IF functions[k].color # Undef
    THEN FMin(FMax(functions[k].color, 0), Whole(1))
  ELSE IF Len(functions) > 1 THEN FDiv(Whole(k - 1), Whole(Len(functions) - 1))
  ELSE 0

\* histogramFactory().create(options): [error, strategy], error as getPalette's
histogramCreate(options) ==
  LET palette == getPalette(options.paletteDef)
  IN  [error |-> palette.error,
       strategy |->
         [mode |-> "histogram",
          funcColors |-> IF palette.error # "none" THEN <<>>
                         ELSE [k \in 1..Len(options.functions) |->
                                 paletteFn(palette, FuncT(options.functions, k))],
          context |-> StrategyContext(options)]]

\* the histogram strategy's accumulate(sample)
histogramAccumulate(strategy, sample) ==
  [strategy EXCEPT !.context =
     commitSample(@, sample.x, sample.y, strategy.funcColors[sample.funcIndex + 1])]

\* the histogram strategy's finalize(outputBuffer): the buffer afterwards
histogramFinalize(strategy, outputBuffer) ==
  finalizeContext(strategy.context, outputBuffer)

----------------------------------------------------------------------------
(* strategies/base/factories.ts (orbitFactory), impl/orbit-angle.ts,       *)
(* impl/orbit-distance.ts, impl/angular-momentum.ts, impl/radial-flux.ts:  *)
(* the strategies that colour whole orbits.                                *)
(* A strategy is [mode, orbitLength, scale, palette, orbits, xs, ys,       *)
(* context, last]. xs and ys are the pending samples (`current` of         *)
(* orbitFactory), scale is momentumScale or fluxScale, an orbit is         *)
(* [xs, ys, t] with t the clamped palette position of orbitFactory or the  *)
(* total of angular-momentum and the flux of radial-flux. last is          *)
(* [scale, ts]: the scale and the palette position of each orbit in the    *)
(* latest finalize.                                                        *)

\* Math.PI
Pi == Lit(314159, 100000)

\* the angle of k eighths of a turn
Eighth(k) == RoundDiv(k * Pi, 4)

\* the eighth of a turn nearest to the direction (x, y) in the first
\* quadrant, for magnitudes ax and ay (tan(pi/8) taken as 1/2)
NearestEighth(ax, ay) ==
  IF ay = 0 THEN 0
  ELSE IF 2 * ay < ax THEN 0
  ELSE IF 2 * ax < ay THEN 2
  ELSE 1

\* Math.atan2(y, x), resolved to eighths of a turn
Atan2(y, x) ==
  IF x = NaN \/ y = NaN THEN NaN
  ELSE IF x >= 0
    THEN Eighth(Sign(y) * NearestEighth(Abs(x), Abs(y)))
  ELSE IF y >= 0 THEN Eighth(4 - NearestEighth(Abs(x), Abs(y)))
  ELSE Eighth(NearestEighth(Abs(x), Abs(y)) - 4)

\* the largest r in lo..hi with r * r <= n
RECURSIVE SqrtBetween(_, _, _)
SqrtBetween(n, lo, hi) ==
  IF lo >= hi THEN lo
  ELSE IF ((lo + hi + 1) \div 2) * ((lo + hi + 1) \div 2) <= n
    THEN SqrtBetween(n, (lo + hi + 1) \div 2, hi)
  ELSE SqrtBetween(n, lo, ((lo + hi + 1) \div 2) - 1)

\* the square root of n rounded to the nearest integer, from its floor r
SqrtRounded(n, r) == IF n - r * r > r THEN r + 1 ELSE r

\* Math.hypot(x, y): overflows only when the root itself does
Hypot(x, y) ==
  IF x \in {PosInf, NegInf} \/ y \in {PosInf, NegInf} THEN PosInf
  ELSE IF x = NaN \/ y = NaN THEN NaN
  ELSE Overflow(SqrtRounded(x * x + y * y,
                            SqrtBetween(x * x + y * y, 0, Abs(x) + Abs(y))))

\* d / (1 + d) of orbitDistance
DistanceT(d) == FDiv(d, FAdd(Whole(1), d))

\* the getT of orbitAngle and of orbitDistance on the first point of an orbit
getT(mode, xs, ys) ==
  CASE mode = "orbit-angle" ->
         FDiv(FAdd(Atan2(ys[1], xs[1]), Pi), FMul(Whole(2), Pi))
    [] mode = "orbit-distance" -> DistanceT(Hypot(xs[1], ys[1]))

\* clamp(t, min, max)
clamp(t, min, max) == FMax(min, FMin(max, t))

\* flushOrbit() of orbitFactory
flushOrbit(st) ==
  [st EXCEPT !.orbits = Append(@, [xs |-> st.xs, ys |-> st.ys,
                                   t |-> clamp(getT(st.mode, st.xs, st.ys), 0, Whole(1))]),
             !.xs = <<>>, !.ys = <<>>]

\* total of pushOrbit in angular-momentum, over the points 1..n
RECURSIVE MomentumTotal(_, _, _)
MomentumTotal(xs, ys, n) ==
  IF n <= 1 THEN 0
  ELSE FAdd(MomentumTotal(xs, ys, n - 1),
            FSub(FMul(FSub(xs[n], xs[n - 1]), ys[n]),
                 FMul(FSub(ys[n], ys[n - 1]), xs[n])))

\* delta of pushOrbit in radial-flux after the two wrap-around tests
WrapDown(delta) == IF FGt(delta, Pi) THEN FSub(delta, FMul(Whole(2), Pi)) ELSE delta
WrapUp(delta) == IF FLt(delta, FNeg(Pi)) THEN FAdd(delta, FMul(Whole(2), Pi)) ELSE delta

\* flux of pushOrbit in radial-flux, over the points 1..n
RECURSIVE FluxTotal(_, _, _)
FluxTotal(xs, ys, n) ==
  IF n <= 1 THEN 0
  ELSE FAdd(FluxTotal(xs, ys, n - 1),
            WrapUp(WrapDown(FSub(Atan2(ys[n], xs[n]), Atan2(ys[n - 1], xs[n - 1])))))

\* pushOrbit() of angular-momentum and of radial-flux
pushOrbit(st) ==
  [st EXCEPT !.orbits = Append(@, [xs |-> st.xs, ys |-> st.ys,
                                   t |-> IF st.mode = "angular-momentum"
                                           THEN MomentumTotal(st.xs, st.ys, Len(st.xs))
                                         ELSE FluxTotal(st.xs, st.ys, Len(st.xs))]),
             !.xs = <<>>, !.ys = <<>>]

OrbitFactoryModes == {"orbit-angle", "orbit-distance"}
ScaledModes == {"angular-momentum", "radial-flux"}

\* the orbitLength that create reads from its options
OrbitLength(mode, options) ==
  IF mode \in OrbitFactoryModes THEN Coalesce(options.orbitLength, 20)
  ELSE IF options.orbitLength = Undef THEN 16 ELSE options.orbitLength

\* create(options) of the four factories: [error, strategy]
orbitCreate(mode, options) ==
  [error |-> getPalette(options.paletteDef).error,
   strategy |->
     [mode |-> mode, orbitLength |-> OrbitLength(mode, options),
      scale |-> IF mode \in ScaledModes THEN options.scale ELSE Undef,
      palette |-> getPalette(options.paletteDef),
      orbits |-> <<>>, xs |-> <<>>, ys |-> <<>>,
      context |-> StrategyContext(options),
      last |-> [scale |-> Undef, ts |-> <<>>]]]

\* the strategy after the sample is pushed to the pending arrays
Pushed(st, sample) ==
  [st EXCEPT !.xs = Append(@, sample.x), !.ys = Append(@, sample.y)]

\* a test that ends an orbit one sample late
OrbitFullStrict(st) == Len(st.xs) > st.orbitLength

\* the test that ends an orbit in accumulate
OrbitFull(st) == Len(st.xs) >= st.orbitLength

\* accumulate(sample) of the four strategies
orbitAccumulate(st, sample) ==
  IF ~OrbitFull(Pushed(st, sample)) THEN Pushed(st, sample)
  ELSE IF st.mode \in OrbitFactoryModes THEN flushOrbit(Pushed(st, sample))
  ELSE pushOrbit(Pushed(st, sample))

\* a flush of the trailing orbit that needs two samples in every strategy
FlushTrailingTwo(st) ==
  IF Len(st.xs) <= 1 THEN st
  ELSE IF st.mode \in OrbitFactoryModes THEN flushOrbit(st)
  ELSE pushOrbit(st)

\* the flush of the partial trailing orbit at the head of finalize
FlushTrailing(st) ==
  IF st.mode \in OrbitFactoryModes
    THEN (IF Len(st.xs) > 0 THEN flushOrbit(st) ELSE st)
  ELSE (IF Len(st.xs) > 1 THEN pushOrbit(st) ELSE st)

\* maxTotal and maxFlux: the reduce over the orbits 1..k
RECURSIVE maxTotal(_, _)
maxTotal(orbits, k) ==
  IF k = 0 THEN 0 ELSE FMax(maxTotal(orbits, k - 1), FAbs(orbits[k].t))

\* a scale that ignores the orbits
finalizeScaleOne(st) == IF st.scale \notin {Undef, Null} THEN st.scale ELSE Whole(1)

\* scale of finalize in angular-momentum and radial-flux
finalizeScale(st) ==
  IF st.scale \notin {Undef, Null} THEN st.scale
  ELSE OrOne(maxTotal(st.orbits, Len(st.orbits)))

\* t < 0 ? 0 : t > 1 ? 1 : t
ClampTernary(t) == IF FLt(t, 0) THEN 0 ELSE IF FGt(t, Whole(1)) THEN Whole(1) ELSE t

\* the palette position of each orbit in finalize
OrbitTs(st, scale) ==
  [k \in 1..Len(st.orbits) |->
     IF st.mode \in OrbitFactoryModes THEN clamp(st.orbits[k].t, 0, Whole(1))
     ELSE ClampTernary(FDiv(FAbs(st.orbits[k].t), scale))]

\* an inner loop that commits one sample of the orbit
CommitOrbitOnce(ctx, orbit, color, i) ==
  IF i > Len(orbit.xs) THEN ctx
  ELSE commitSample(ctx, orbit.xs[i], orbit.ys[i], color)

\* the inner loop of finalize: the samples of one orbit from sample i on
RECURSIVE CommitOrbit(_, _, _, _)
CommitOrbit(ctx, orbit, color, i) ==
  IF i > Len(orbit.xs) THEN ctx
  ELSE CommitOrbit(commitSample(ctx, orbit.xs[i], orbit.ys[i], color), orbit, color, i + 1)

\* the outer loop of finalize from orbit k on
RECURSIVE CommitOrbits(_, _, _, _)
CommitOrbits(ctx, st, ts, k) ==
  IF k > Len(st.orbits) THEN ctx
  ELSE CommitOrbits(CommitOrbit(ctx, st.orbits[k], paletteFn(st.palette, ts[k]), 1),
                    st, ts, k + 1)

\* the strategy and the buffer when finalize returns
Finalized(st, ctx, outputBuffer) ==
  [strategy |-> [st EXCEPT !.context = ctx],
   buffer |-> finalizeContext(ctx, outputBuffer)]

\* finalize after the flush, with the scale
FinalizeWith(st, scale, outputBuffer) ==
  Finalized([st EXCEPT !.last = [scale |-> scale, ts |-> OrbitTs(st, scale)]],
            CommitOrbits(st.context, st, OrbitTs(st, scale), 1), outputBuffer)

\* finalize after the flush
FinalizeFlushed(st, outputBuffer) ==
  FinalizeWith(st, IF st.mode \in ScaledModes THEN finalizeScale(st) ELSE Undef,
               outputBuffer)

\* finalize(outputBuffer) of the four strategies: [strategy, buffer]
orbitFinalize(st, outputBuffer) == FinalizeFlushed(FlushTrailing(st), outputBuffer)

----------------------------------------------------------------------------
(* renderer.ts: renderFlame.                                               *)
(* A preset is [width, height, supersample, functions, iterations, burnIn, *)
(* gamma, palette, finalTransform, domainBounds, mode, origIterations];    *)
(* an absent number is Undef, an absent coloring mode is "undefined",      *)
(* iterations, burnIn and origIterations are whole numbers.                *)

DefaultIterations == 100000
DefaultBurnIn == 20

\* the destructuring defaults of renderFlame
Supersample(preset) == IF preset.supersample = Undef THEN Whole(1) ELSE preset.supersample
Iterations(preset) == IF preset.iterations = Undef THEN DefaultIterations ELSE preset.iterations
BurnIn(preset) == IF preset.burnIn = Undef THEN DefaultBurnIn ELSE preset.burnIn
Gamma(preset) == IF preset.gamma = Undef THEN Whole(1) ELSE preset.gamma

NoTransform == [rotation |-> Undef, scale |-> Undef, translateX |-> Undef,
                translateY |-> Undef]
NoBounds == [present |-> FALSE, minX |-> 0, minY |-> 0, maxX |-> 0, maxY |-> 0]

rot(preset) == Coalesce(preset.finalTransform.rotation, 0)
scl(preset) == Coalesce(preset.finalTransform.scale, Whole(1))
trX(preset) == Coalesce(preset.finalTransform.translateX, 0)
trY(preset) == Coalesce(preset.finalTransform.translateY, 0)

\* a test that ignores the translation
hasFinalTransformNoTranslation(preset) ==
  rot(preset) # 0 \/ scl(preset) # Whole(1)

hasFinalTransform(preset) ==
  rot(preset) # 0 \/ scl(preset) # Whole(1) \/ trX(preset) # 0 \/ trY(preset) # 0

\* (Math.cos(rot), Math.sin(rot)): exact at 0, otherwise one of the axis
\* directions
CosSin(rotation) ==
  IF rotation = 0 THEN {<<Whole(1), 0>>}
  ELSE IF ~IsFinite(rotation) THEN {<<NaN, NaN>>}
  ELSE CircleDirs

\* cumProbs after the loop over the first k functions
RECURSIVE CumProbs(_, _)
CumProbs(functions, k) ==
  IF k = 0 THEN <<>>
  ELSE LET before == CumProbs(functions, k - 1)
           total == IF k = 1 THEN 0 ELSE before[k - 1]
       IN  Append(before, FAdd(total, functions[k].probability))

\* totalProb after the loop
TotalProb(functions) ==
  IF Len(functions) = 0 THEN 0 ELSE CumProbs(functions, Len(functions))[Len(functions)]

\* a findIndex with the test r <= p
RECURSIVE findIndexInclusive(_, _, _)
findIndexInclusive(cumProbs, r, k) ==
  IF k > Len(cumProbs) THEN -1
  ELSE IF FGe(cumProbs[k], r) THEN k - 1
  ELSE findIndexInclusive(cumProbs, r, k + 1)

\* cumProbs.findIndex((p) => r < p), an index from 0 or -1
RECURSIVE findIndex(_, _, _)
findIndex(cumProbs, r, k) ==
  IF k > Len(cumProbs) THEN -1
  ELSE IF FLt(r, cumProbs[k]) THEN k - 1
  ELSE findIndex(cumProbs, r, k + 1)

\* a selection that falls back to the first function
SelectIndexFirst(cumProbs, r, n) ==
  LET fnIdx == findIndex(cumProbs, r, 1)
  IN  IF fnIdx >= 0 THEN fnIdx ELSE IF n = 0 THEN -1 ELSE 0

\* fnIdx >= 0 ? fnIdx : functions.length - 1
SelectIndex(cumProbs, r, n) ==
  LET fnIdx == findIndex(cumProbs, r, 1)
  IN  IF fnIdx >= 0 THEN fnIdx ELSE n - 1

\* a loop test that admits one more pass
LoopContinuesInclusive(i, n) == i <= n

\* i < n, the test of the three loops
LoopContinues(i, n) == i < n

\* a dry run of the length of the main loop
dryRunIterationsAsMain(preset) == Iterations(preset)

\* preset._origIterations ?? iterations
dryRunIterations(preset) ==
  IF preset.origIterations = Undef THEN Iterations(preset) ELSE preset.origIterations

\* the final transform of the main loop applied to (x, y): <<fx, fy>>
FinalTransform(preset, bounds, cosSin, x, y) ==
  LET cxF == FDiv(FAdd(bounds.minX, bounds.maxX), Whole(2))
      cyF == FDiv(FAdd(bounds.minY, bounds.maxY), Whole(2))
      dxF == FSub(x, cxF)
      dyF == FSub(y, cyF)
      sxF == FMul(dxF, scl(preset))
      syF == FMul(dyF, scl(preset))
      cosF == cosSin[1]
      sinF == cosSin[2]
      rxF == FSub(FMul(sxF, cosF), FMul(syF, sinF))
      ryF == FAdd(FMul(sxF, sinF), FMul(syF, cosF))
  IN  <<FAdd(FAdd(rxF, cxF),
             FDiv(FMul(trX(preset), FSub(bounds.maxX, bounds.minX)),
                  Whole(preset.width))),
        FAdd(FAdd(ryF, cyF),
             FDiv(FMul(trY(preset), FSub(bounds.maxY, bounds.minY)),
                  Whole(preset.height)))>>

\* the bounds after the dry run has seen (tx, ty)
TrackBounds(bounds, tx, ty) ==
  [bounds EXCEPT !.minX = IF FLt(tx, @) THEN tx ELSE @,
                 !.maxX = IF FGt(tx, @) THEN tx ELSE @,
                 !.minY = IF FLt(ty, @) THEN ty ELSE @,
                 !.maxY = IF FGt(ty, @) THEN ty ELSE @]

----------------------------------------------------------------------------
(* State.                                                                  *)
(*   sv  one call of a registry entry: [pc, name, x, y, params, raw, out]  *)
(*   af  one call of applyFlameFunction: [pc, fn, x, y, sum, ret]          *)
(*   sc  one StrategyContext and the buffers it is finalized into:         *)
(*       [pc, ctx, before, outputBuffer, twin, offset, moved, previous,    *)
(*       hist, finalized];                                                 *)
(*       before is the destination buffer as it was handed to the last     *)
(*       finalize and outputBuffer as it was left, twin is a buffer with   *)
(*       an earlier image that the same finalize is run into, previous     *)
(*       holds before and outputBuffer of the finalize just before the     *)
(*       last one when no sample was committed in between, hist is the     *)
(*       hit-count array of the last finalize, finalized tells that no     *)
(*       sample was committed since, moved is the buffer that the first    *)
(*       finalize leaves for the same samples translated by offset         *)
(*   os  one orbit-colouring strategy that is fed samples and finalized:   *)
(*       [pc, strategy, fed, pending, outputBuffer, previous, runs]; fed   *)
(*       is the sequence of samples accumulated, runs counts the calls of  *)
(*       finalize, pending is the number of pending samples at the entry   *)
(*       of the last finalize, outputBuffer the buffer it filled and       *)
(*       previous the buffer the call before it filled                     *)
(*   rf  calls of renderFlame on one preset object: the preset, the        *)
(*       canvas, the locals of the call in progress, first (the preset as  *)
(*       the caller built it), renders (the calls so far), dryCalls (the   *)
(*       calls that entered the dry run);                                  *)
(*       the function, the last selection sel = [r, index], and calls,     *)
(*       which counts the composer calls of each loop and the calls of     *)
(*       the strategy's accumulate and finalize; entry is the preset as    *)
(*       it was passed, ranDry tells that the dry run was entered and      *)
(*       burnEnd is (x, y) at the end of the burn-in loop                  *)
(*   ui  the page of main.ts: the fields of the preset that its handlers   *)
(*       write (iterations, origIterations, translateX, translateY), the   *)
(*       drag state (isDragging, dragStartX, dragStartY, origTranslateX,   *)
(*       origTranslateY, normalIterations), rendered (iterations and       *)
(*       _origIterations of the preset at the last call of renderFlame),   *)
(*       settled (preset.iterations as it was when the drag in progress    *)
(*       or the last drag started, or as the iterations input set it       *)
(*       outside a drag) and events (the events handled so far)            *)

VARIABLES sv, af, sc, rf, os, ui

vars == <<sv, af, sc, rf, os, ui>>

SvIdle == [pc |-> "idle"]
AfIdle == [pc |-> "idle"]
ScIdle == [pc |-> "idle"]
RfIdle == [pc |-> "idle"]
OsIdle == [pc |-> "idle"]
UiIdle == [pc |-> "idle"]

----------------------------------------------------------------------------
(* Calls of the safety-wrapped registry entries *)

SvCoords == {NaN, PosInf, NegInf, 0, 1, Whole(1), Whole(-3), Whole(100), MaxRaw}

SvParams ==
  {NoParams, NullParams,
   [NoParams EXCEPT !.kind = "object", !.iterations = Whole(3)],
   [NoParams EXCEPT !.kind = "object", !.cx = 0, !.cy = Whole(1),
                    !.escapeRadius = Whole(20)]}

SvInit ==
  \E name \in Registered, x \in SvCoords, y \in SvCoords, params \in SvParams :
    /\ sv = [pc |-> "call", name |-> name, x |-> x, y |-> y, params |-> params,
             raw |-> Thrown, out |-> Thrown]
    /\ af = AfIdle /\ sc = ScIdle /\ rf = RfIdle /\ os = OsIdle
    /\ ui = UiIdle

\* variations[name](x, y, params)
SvCall ==
  /\ sv.pc = "call"
  /\ \E rnd \in DrawsOf(sv.name) :
       sv' = [sv EXCEPT !.pc = "done",
                        !.raw = rawVariations(sv.name, sv.x, sv.y, sv.params, rnd),
                        !.out = variations(sv.name, sv.x, sv.y, sv.params, rnd)]
  /\ UNCHANGED <<af, sc, rf, os, ui>>

SpecSv == SvInit /\ [][SvCall]_vars

----------------------------------------------------------------------------
(* Calls of applyFlameFunction *)

Entry(name, weight) == [name |-> name, weight |-> weight, params |-> NoParams]

IdentityAffine == <<Whole(1), 0, 0, 0, Whole(1), 0>>
\* the affine of the module's second self-test
TestAffine == <<Whole(2), 0, Whole(1), 0, Whole(3), Whole(2)>>

AfAffines ==
  {IdentityAffine, TestAffine,
   <<Whole(50), 0, 0, 0, Whole(-1), Whole(1)>>,
   <<Whole(300), Whole(1), 0, Whole(1), 1, 0>>}

AfVariations ==
  {<<Entry("linear", Whole(1))>>,
   <<Entry("linear", Whole(2))>>,
   <<Entry("linear", Whole(5))>>,
   <<Entry("linear", 0), Entry("mirrorx", Whole(-1))>>,
   <<Entry("bogus", Whole(1))>>,
   <<Entry("bogus", 0), Entry("linear", Whole(1))>>,
   <<Entry("linear", Whole(1)), Entry("bogus", Whole(1))>>,
   <<Entry("toString", Whole(1))>>,
   <<Entry("toString", Whole(2)), Entry("linear", Whole(3))>>,
   <<Entry("toString", Whole(1)), Entry("bogus", Whole(1))>>,
   <<Entry("constructor", Whole(1)), Entry("bogus", Whole(1))>>,
   <<Entry("blur", Whole(1)), Entry("sinusoidal", Whole(MaxF))>>,
   <<[Entry("juliaWarp", Whole(1)) EXCEPT !.params = NullParams]>>,
   <<Entry("mandelbrotWarp", Whole(1)), Entry("bent", Whole(MaxF))>>}

AfCoords == {NaN, PosInf, NegInf, 0, 1, Whole(3), Whole(4), Whole(5),
             Whole(-3), Whole(100), Whole(150)}

AfInit ==
  \E affine \in AfAffines, variation \in AfVariations, x \in AfCoords, y \in AfCoords :
    /\ af = [pc |-> "call",
             fn |-> [affine |-> affine, variations |-> variation, probability |-> 1],
             x |-> x, y |-> y,
             sum |-> [kind |-> "ok", x |-> 0, y |-> 0],
             ret |-> [kind |-> "ok", x |-> 0, y |-> 0]]
    /\ sv = SvIdle /\ sc = ScIdle /\ rf = RfIdle /\ os = OsIdle
    /\ ui = UiIdle

\* applyFlameFunction(fn, x, y); sum is newX, newY when the loop has ended
AfCall ==
  /\ af.pc = "call"
  /\ \E rnds \in DrawsOfEntries(af.fn.variations, 1) :
       af' = [af EXCEPT
                !.pc = "done",
                !.sum = VariationLoop(af.fn.variations, 1,
                                      Clamp(AffineX(af.fn.affine, af.x, af.y)),
                                      Clamp(AffineY(af.fn.affine, af.x, af.y)),
                                      0, 0, rnds),
                !.ret = applyFlameFunction(af.fn, af.x, af.y, rnds)]
  /\ UNCHANGED <<sv, sc, rf, os, ui>>

SpecAf == AfInit /\ [][AfCall]_vars

----------------------------------------------------------------------------
(* A StrategyContext that is fed samples and finalized *)

MaxSamples == 2

ScOptions ==
  {[width |-> 1, height |-> 1, supersample |-> Whole(1), gamma |-> Whole(1)],
   [width |-> 2, height |-> 2, supersample |-> Whole(1), gamma |-> Whole(1)],
   [width |-> 2, height |-> 2, supersample |-> 0, gamma |-> Whole(1)],
   [width |-> 3, height |-> 2, supersample |-> Whole(2), gamma |-> Whole(1)]}

ScXs == {NegInf, -MaxRaw, 0, 1, MaxRaw}
ScYs == {0, Whole(1)}
ScColors == {<<Whole(1), 0, 0>>, <<0, 1, Whole(1)>>}

\* a buffer that holds an earlier image
Stale(width, height) == [p \in 0..(width * height - 1) |-> <<9, 9, 9, 9>>]

\* no finalize ran just before the last one
NoRun == [before |-> <<>>, after |-> <<>>]

ScInit ==
  \E options \in ScOptions :
    /\ sc = [pc |-> "open", ctx |-> StrategyContext(options),
             before |-> createImageData(options.width, options.height),
             outputBuffer |-> createImageData(options.width, options.height),
             twin |-> Stale(options.width, options.height),
             offset |-> <<0, 0>>,
             moved |-> createImageData(options.width, options.height),
             previous |-> NoRun, hist |-> <<>>, finalized |-> FALSE]
    /\ sv = SvIdle /\ af = AfIdle /\ rf = RfIdle /\ os = OsIdle
    /\ ui = UiIdle

\* the samples a caller commits: every coordinate near the origin in both
\* colours, the extreme x values on the axis in the first colour
ScInputs ==
  {s \in ScXs \X ScYs \X ScColors :
     s[1] \in {0, 1} \/ (s[2] = 0 /\ s[3] = <<Whole(1), 0, 0>>)}

\* a caller commits its samples before it finalizes, as renderFlame does
ScCommit ==
  /\ sc.pc = "open"
  /\ ~sc.finalized
  /\ Len(sc.ctx.xs) < MaxSamples
  /\ \E s \in ScInputs :
       sc' = [sc EXCEPT !.ctx = commitSample(@, s[1], s[2], s[3])]
  /\ UNCHANGED <<sv, af, rf, os, ui>>

\* the offsets of a final transform that only translates
ScOffsets == {<<Whole(1), Whole(-1)>>, <<-1, Whole(2)>>}

\* a context of the same options that was handed the first n samples of
\* ctx, each translated by the offset
RECURSIVE ScTranslated(_, _, _)
ScTranslated(ctx, offset, n) ==
  IF n = 0
    THEN [ctx EXCEPT !.xs = <<>>, !.ys = <<>>, !.cols = <<>>,
                     !.minX = PosInf, !.minY = PosInf,
                     !.maxX = NegInf, !.maxY = NegInf]
  ELSE commitSample(ScTranslated(ctx, offset, n - 1),
                    FAdd(ctx.xs[n], offset[1]), FAdd(ctx.ys[n], offset[2]),
                    ctx.cols[n])

\* the translated twin is finalized once, with the first finalize
ScTwinOffsets == IF sc.finalized THEN {sc.offset} ELSE ScOffsets

\* the buffers a caller hands to finalize: a new ImageData or the one it holds
ScDestinations ==
  {createImageData(sc.ctx.width, sc.ctx.height), sc.outputBuffer}

ScFinalize ==
  /\ sc.pc = "open"
  /\ \E destination \in ScDestinations, offset \in ScTwinOffsets :
       sc' = [sc EXCEPT !.before = destination,
                        !.offset = offset,
                        !.moved = IF sc.finalized THEN @
                                  ELSE finalizeContext(
                                         ScTranslated(sc.ctx, offset, Len(sc.ctx.xs)),
                                         destination),
                        !.outputBuffer = finalizeContext(sc.ctx, destination),
                        !.twin = finalizeContext(sc.ctx, Stale(sc.ctx.width, sc.ctx.height)),
                        !.previous = IF sc.finalized
                                       THEN [before |-> sc.before, after |-> sc.outputBuffer]
                                     ELSE NoRun,
                        !.hist = Accumulated(sc.ctx).hist,
                        !.finalized = TRUE]
  /\ UNCHANGED <<sv, af, rf, os, ui>>

SpecCtx == ScInit /\ [][ScCommit \/ ScFinalize]_vars

----------------------------------------------------------------------------
(* An orbit-colouring strategy that is fed samples and finalized *)

MaxOrbitSamples == 4
MaxFinalize == 2

\* mode, momentumScale or fluxScale, and orbitLength of the options
OsConfig(mode, scale, orbitLength) ==
  [mode |-> mode, scale |-> scale, orbitLength |-> orbitLength]

OsConfigs ==
  {OsConfig("orbit-angle", Undef, 2), OsConfig("orbit-distance", Undef, 2),
   OsConfig("angular-momentum", Undef, 2), OsConfig("angular-momentum", Whole(1), 2),
   OsConfig("angular-momentum", Undef, Undef),
   OsConfig("radial-flux", Undef, 2), OsConfig("radial-flux", Whole(1), 2),
   OsConfig("radial-flux", Undef, Undef),
   OsConfig("angular-momentum", Undef, 1),
   OsConfig("histogram", Undef, Undef)}

\* the two functions that the options of create carry
OsFunctions ==
  <<[affine |-> IdentityAffine, variations |-> <<Entry("linear", Whole(1))>>,
     probability |-> Whole(1), color |-> Undef],
    [affine |-> IdentityAffine, variations |-> <<Entry("linear", Whole(1))>>,
     probability |-> Whole(1), color |-> Whole(1)]>>

OsOptions(config) ==
  [width |-> 2, height |-> 2, supersample |-> Whole(1), gamma |-> Whole(1),
   paletteDef |-> NoPalette, orbitLength |-> config.orbitLength, scale |-> config.scale,
   functions |-> OsFunctions]

\* create(options) of the factory that is registered for the mode
OsCreate(mode, options) ==
  IF mode = "histogram" THEN histogramCreate(options) ELSE orbitCreate(mode, options)

\* the function that produced the point: the second one for the points on
\* the y axis, which only histogram reads
OsFuncIndex(point) == IF point[1] = 0 THEN 1 ELSE 0

\* the pending samples of the strategy
OsPending(st) == IF st.mode = "histogram" THEN 0 ELSE Len(st.xs)

\* the points of the samples: three near the origin and one at the largest
\* finite coordinates
OsPoints == {<<Whole(1), 0>>, <<0, Whole(1)>>, <<Whole(2), 0>>, <<MaxRaw, MaxRaw>>}

OsInit ==
  \E config \in OsConfigs :
    /\ os = [pc |-> "open", strategy |-> OsCreate(config.mode, OsOptions(config)).strategy,
             fed |-> <<>>, pending |-> 0,
             outputBuffer |-> <<>>, previous |-> <<>>, runs |-> 0]
    /\ sv = SvIdle /\ af = AfIdle /\ sc = ScIdle /\ rf = RfIdle
    /\ ui = UiIdle

\* a caller accumulates its samples before it finalizes, as renderFlame does
OsAccumulate ==
  /\ os.pc = "open"
  /\ os.runs = 0
  /\ Len(os.fed) < MaxOrbitSamples
  /\ \E point \in OsPoints :
       LET sample == [x |-> point[1], y |-> point[2], funcIndex |-> OsFuncIndex(point)]
       IN  os' = [os EXCEPT !.strategy = IF @.mode = "histogram"
                                           THEN histogramAccumulate(@, sample)
                                         ELSE orbitAccumulate(@, sample),
                            !.fed = Append(@, point)]
  /\ UNCHANGED <<sv, af, sc, rf, ui>>

\* the harness when finalize has returned [strategy, buffer]
OsReturned(result) ==
  [os EXCEPT !.strategy = result.strategy,
             !.outputBuffer = result.buffer,
             !.previous = os.outputBuffer,
             !.pending = OsPending(os.strategy),
             !.runs = @ + 1]

\* finalize into a new ImageData
OsFinalize ==
  /\ os.pc = "open"
  /\ os.runs < MaxFinalize
  /\ os' = OsReturned(IF os.strategy.mode = "histogram"
                         THEN [strategy |-> os.strategy,
                               buffer |-> histogramFinalize(os.strategy,
                                                            createImageData(2, 2))]
                       ELSE orbitFinalize(os.strategy, createImageData(2, 2)))
  /\ UNCHANGED <<sv, af, sc, rf, ui>>

SpecOrbit == OsInit /\ [][OsAccumulate \/ OsFinalize]_vars

----------------------------------------------------------------------------
(* Calls of renderFlame *)

MaxIter == 2
MaxBurn == 1
MaxRenders == 2

Half == Lit(1, 2)

Fn(affine, variation, probability) ==
  [affine |-> affine, variations |-> variation, probability |-> probability,
   color |-> Undef]

\* x/2, y/2 and x/2 + 1, y/2: two contractions
Shrink == Fn(<<Half, 0, 0, 0, Half, 0>>, <<Entry("linear", Whole(1))>>, Half)
ShrinkRight == Fn(<<Half, 0, Whole(1), 0, Half, 0>>, <<Entry("linear", Whole(1))>>, Half)
Bogus == Fn(IdentityAffine, <<Entry("bogus", Whole(1))>>, Half)

Red == <<"#", "f", "0", "0">>
Blue == <<"0", "0", "0", "0", "f", "f">>
TooShort == <<"#", "1", "2">>
NonHex == <<"#", "g", "g", "0", "0", "0", "0">>

BasePreset ==
  [width |-> 2, height |-> 2, supersample |-> Undef,
   functions |-> <<Shrink, ShrinkRight>>,
   iterations |-> MaxIter, burnIn |-> MaxBurn, gamma |-> Undef,
   palette |-> NoPalette, finalTransform |-> NoTransform,
   domainBounds |-> NoBounds, mode |-> "undefined", origIterations |-> Undef]

Shifted == [NoTransform EXCEPT !.translateX = Whole(1)]
Turned == [NoTransform EXCEPT !.rotation = Whole(1), !.scale = Whole(2)]
Unmoved == [NoTransform EXCEPT !.rotation = 0, !.scale = Whole(1)]
GivenBounds == [present |-> TRUE, minX |-> Whole(-1), minY |-> Whole(-1),
                maxX |-> Whole(2), maxY |-> Whole(1)]

\* one function that moves no point, no burn-in, ten by ten pixels
OnePoint ==
  [BasePreset EXCEPT !.width = 10, !.height = 10,
                     !.functions = <<Fn(IdentityAffine, <<Entry("linear", Whole(1))>>,
                                        Whole(1))>>,
                     !.burnIn = 0, !.mode = "histogram"]

RfPresets ==
  {BasePreset,
   [BasePreset EXCEPT !.burnIn = 0, !.iterations = 1, !.supersample = Whole(2),
                      !.mode = "histogram", !.palette = NamedPalette("rainbow")],
   [BasePreset EXCEPT !.iterations = 0, !.palette = ArrayPalette(<<Red, Blue>>)],
   [BasePreset EXCEPT !.functions = <<[Shrink EXCEPT !.probability = 0],
                                      [ShrinkRight EXCEPT !.probability = 0]>>],
   [BasePreset EXCEPT !.functions = <<[Shrink EXCEPT !.probability = 0],
                                      [ShrinkRight EXCEPT !.probability = 0]>>,
                      !.finalTransform = Shifted, !.iterations = 1],
   [BasePreset EXCEPT !.functions = <<[Shrink EXCEPT !.probability = 0], ShrinkRight>>,
                      !.iterations = 1],
   [BasePreset EXCEPT !.functions = <<Shrink, [ShrinkRight EXCEPT !.probability = 0]>>,
                      !.finalTransform = Shifted, !.iterations = 1],
   [BasePreset EXCEPT !.functions = <<Shrink, Bogus>>],
   [BasePreset EXCEPT !.functions = <<Shrink, Bogus>>, !.finalTransform = Shifted],
   [BasePreset EXCEPT !.functions = <<>>],
   [BasePreset EXCEPT !.mode = "plasma"],
   [BasePreset EXCEPT !.palette = NamedPalette("sunset")],
   [BasePreset EXCEPT !.palette = ArrayPalette(<<Red, TooShort>>)],
   [BasePreset EXCEPT !.palette = ArrayPalette(<<Red, NonHex>>), !.iterations = 1],
   [BasePreset EXCEPT !.finalTransform = Shifted],
   [BasePreset EXCEPT !.finalTransform = Shifted, !.origIterations = 1],
   [BasePreset EXCEPT !.finalTransform = Turned, !.domainBounds = GivenBounds],
   [BasePreset EXCEPT !.finalTransform = Shifted, !.iterations = 1,
                      !.origIterations = MaxIter],
   [BasePreset EXCEPT !.finalTransform = Unmoved],
   OnePoint,
   [OnePoint EXCEPT !.iterations = 1]}

NoImage == <<>>
InfiniteBounds == [present |-> FALSE, minX |-> PosInf, minY |-> PosInf,
                   maxX |-> NegInf, maxY |-> NegInf]
NoCalls == [burnIn |-> 0, dryRun |-> 0, main |-> 0, accumulate |-> 0, finalize |-> 0]
NoSelection == [r |-> Undef, index |-> -1]
NoStrategy == [mode |-> "none", funcColors |-> <<>>, context |-> <<>>]

\* the entry of a call of renderFlame(preset, canvas). first is the preset
\* as the caller built it, renders counts the calls on it and dryCalls those
\* of them that entered the dry run
RfEntered(preset, canvas, first, renders, dryCalls) ==
  [pc |-> "start", preset |-> preset, entry |-> preset,
   first |-> first, renders |-> renders, dryCalls |-> dryCalls,
   ranDry |-> FALSE, burnEnd |-> <<>>,
   canvas |-> canvas,
   imageData |-> NoImage, strategy |-> NoStrategy,
   totalProb |-> 0, cumProbs |-> <<>>,
   x |-> 0, y |-> 0, tx |-> 0, ty |-> 0, i |-> 0,
   bounds |-> InfiniteBounds, cosSin |-> <<Whole(1), 0>>,
   sel |-> NoSelection, calls |-> NoCalls, error |-> "none"]

RfInit ==
  \E preset \in RfPresets, has2d \in BOOLEAN :
    /\ rf = RfEntered(preset,
                      [pixels |-> Stale(preset.width, preset.height), has2d |-> has2d],
                      preset, 1, 0)
    /\ sv = SvIdle /\ af = AfIdle /\ sc = ScIdle /\ os = OsIdle
    /\ ui = UiIdle

\* strategyFactory.create(options) for the mode of the factory
CreateStrategy(mode, options) ==
  CASE mode = "histogram" -> histogramCreate(options)

\* the options that renderFlame hands to create
OptionsOf(preset) ==
  [width |-> preset.width, height |-> preset.height,
   supersample |-> Supersample(preset), functions |-> preset.functions,
   paletteDef |-> preset.palette, gamma |-> Gamma(preset)]

\* from the entry of renderFlame to the draw of the start point
RfStart ==
  /\ rf.pc = "start"
  /\ LET preset == rf.preset
         cleared == [rf EXCEPT !.canvas.pixels =
                                 createImageData(preset.width, preset.height)]
         factory == getStrategyFactory(IF preset.mode = "undefined" THEN "histogram"
                                       ELSE preset.mode)
         created == CreateStrategy(factory.mode, OptionsOf(preset))
     IN  IF ~rf.canvas.has2d
           THEN rf' = [cleared EXCEPT !.pc = "failed", !.error = "no 2d context"]
         ELSE IF factory.thrown
           THEN rf' = [cleared EXCEPT !.pc = "failed", !.error = "unknown strategy"]
         ELSE IF created.error # "none"
           THEN rf' = [cleared EXCEPT !.pc = "failed", !.error = created.error]
         ELSE \E rx \in RandomUnit, ry \in RandomUnit, cosSin \in CosSin(rot(preset)) :
                rf' = [cleared EXCEPT
                         !.pc = "burnIn",
                         !.cumProbs = CumProbs(preset.functions, Len(preset.functions)),
                         !.totalProb = TotalProb(preset.functions),
                         !.strategy = created.strategy,
                         !.cosSin = cosSin,
                         !.x = FSub(FMul(rx, Whole(2)), Whole(1)),
                         !.y = FSub(FMul(ry, Whole(2)), Whole(1)),
                         !.i = 0]
  /\ UNCHANGED <<sv, af, sc, os, ui>>

\* one composer call's outcome with the selection that led to it
Outcome(res, r, index) ==
  [kind |-> res.kind, x |-> res.x, y |-> res.y, r |-> r, index |-> index]

\* the outcomes of the composer call for the selected index
CompositionsOf(x, y, r, index) ==
  IF index < 0
    THEN {[kind |-> "typeerror", x |-> NaN, y |-> NaN, r |-> r, index |-> index]}
  ELSE {Outcome(applyFlameFunction(rf.preset.functions[index + 1], x, y, rnds), r, index) :
          rnds \in DrawsOfEntries(rf.preset.functions[index + 1].variations, 1)}

\* the outcomes of one selection with the draw r and one composer call
CompositionsAt(x, y, r) ==
  CompositionsOf(x, y, r, SelectIndex(rf.cumProbs, r, Len(rf.preset.functions)))

\* the outcomes of one selection and one composer call at (x, y):
\* [kind, x, y, r, index]
Compositions(x, y) ==
  UNION {CompositionsAt(x, y, FMul(rnd, rf.totalProb)) : rnd \in RandomUnit}

ErrorOf(kind) == IF kind = "unknown" THEN "unknown variation" ELSE "type error"

\* one pass of the burn-in loop
RfBurnInStep ==
  /\ rf.pc = "burnIn"
  /\ LoopContinues(rf.i, BurnIn(rf.preset))
  /\ \E c \in Compositions(rf.x, rf.y) :
       rf' = IF c.kind # "ok"
               THEN [rf EXCEPT !.pc = "failed", !.error = ErrorOf(c.kind),
                               !.sel = [r |-> c.r, index |-> c.index],
                               !.calls.burnIn = @ + 1]
             ELSE [rf EXCEPT !.x = c.x, !.y = c.y, !.i = @ + 1,
                             !.sel = [r |-> c.r, index |-> c.index],
                             !.calls.burnIn = @ + 1]
  /\ UNCHANGED <<sv, af, sc, os, ui>>

\* an end of the burn-in loop that never reads the bounds of the preset
RfBurnInDoneAlwaysDry ==
  /\ rf.pc = "burnIn"
  /\ ~LoopContinues(rf.i, BurnIn(rf.preset))
  /\ rf' = IF ~hasFinalTransform(rf.preset)
             THEN [rf EXCEPT !.pc = "main", !.i = 0, !.burnEnd = <<rf.x, rf.y>>]
           ELSE [rf EXCEPT !.pc = "dryRun", !.i = 0, !.burnEnd = <<rf.x, rf.y>>,
                           !.ranDry = TRUE, !.dryCalls = @ + 1,
                           !.tx = rf.x, !.ty = rf.y]
  /\ UNCHANGED <<sv, af, sc, os, ui>>

\* the end of the burn-in loop and the choice of the domain bounds
RfBurnInDone ==
  /\ rf.pc = "burnIn"
  /\ ~LoopContinues(rf.i, BurnIn(rf.preset))
  /\ rf' = IF ~hasFinalTransform(rf.preset)
             THEN [rf EXCEPT !.pc = "main", !.i = 0, !.burnEnd = <<rf.x, rf.y>>]
           ELSE IF rf.preset.domainBounds.present
             THEN [rf EXCEPT !.pc = "main", !.i = 0, !.burnEnd = <<rf.x, rf.y>>,
                             !.bounds = rf.preset.domainBounds]
           ELSE [rf EXCEPT !.pc = "dryRun", !.i = 0, !.burnEnd = <<rf.x, rf.y>>,
                           !.ranDry = TRUE, !.dryCalls = @ + 1,
                           !.tx = rf.x, !.ty = rf.y]
  /\ UNCHANGED <<sv, af, sc, os, ui>>

\* one pass of the dry run
RfDryRunStep ==
  /\ rf.pc = "dryRun"
  /\ LoopContinues(rf.i, dryRunIterations(rf.preset))
  /\ \E c \in Compositions(rf.tx, rf.ty) :
       rf' = IF c.kind # "ok"
               THEN [rf EXCEPT !.pc = "failed", !.error = ErrorOf(c.kind),
                               !.sel = [r |-> c.r, index |-> c.index],
                               !.calls.dryRun = @ + 1]
             ELSE [rf EXCEPT !.tx = c.x, !.ty = c.y, !.i = @ + 1,
                             !.bounds = TrackBounds(@, c.x, c.y),
                             !.sel = [r |-> c.r, index |-> c.index],
                             !.calls.dryRun = @ + 1]
  /\ UNCHANGED <<sv, af, sc, os, ui>>

\* the end of a dry run that stores nothing
RfDryRunDoneReadOnly ==
  /\ rf.pc = "dryRun"
  /\ ~LoopContinues(rf.i, dryRunIterations(rf.preset))
  /\ rf' = [rf EXCEPT !.pc = "main", !.i = 0]
  /\ UNCHANGED <<sv, af, sc, os, ui>>

\* the end of the dry run: the bounds are stored in the preset
RfDryRunDone ==
  /\ rf.pc = "dryRun"
  /\ ~LoopContinues(rf.i, dryRunIterations(rf.preset))
  /\ rf' = [rf EXCEPT !.pc = "main", !.i = 0,
                      !.preset.domainBounds = [rf.bounds EXCEPT !.present = TRUE]]
  /\ UNCHANGED <<sv, af, sc, os, ui>>

\* one pass of the main loop
RfMainStep ==
  /\ rf.pc = "main"
  /\ LoopContinues(rf.i, Iterations(rf.preset))
  /\ \E c \in Compositions(rf.x, rf.y) :
       rf' = IF c.kind # "ok"
               THEN [rf EXCEPT !.pc = "failed", !.error = ErrorOf(c.kind),
                               !.sel = [r |-> c.r, index |-> c.index],
                               !.calls.main = @ + 1]
             ELSE LET f == IF hasFinalTransform(rf.preset)
                             THEN FinalTransform(rf.preset, rf.bounds, rf.cosSin, c.x, c.y)
                           ELSE <<c.x, c.y>>
                      sample == [x |-> f[1], y |-> f[2], funcIndex |-> c.index]
                  IN  [rf EXCEPT !.x = c.x, !.y = c.y, !.i = @ + 1,
                                 !.sel = [r |-> c.r, index |-> c.index],
                                 !.strategy = histogramAccumulate(@, sample),
                                 !.calls.main = @ + 1,
                                 !.calls.accumulate = @ + 1]
  /\ UNCHANGED <<sv, af, sc, os, ui>>

\* createImageData, strategy.finalize and putImageData
RfFinalize ==
  /\ rf.pc = "main"
  /\ ~LoopContinues(rf.i, Iterations(rf.preset))
  /\ LET data == histogramFinalize(rf.strategy,
                                   createImageData(rf.preset.width, rf.preset.height))
     IN  rf' = [rf EXCEPT !.pc = "done", !.imageData = data,
                          !.canvas.pixels = data,
                          !.calls.finalize = @ + 1]
  /\ UNCHANGED <<sv, af, sc, os, ui>>

\* the translations that the page sets before it renders again
RfMoves(transform) == {transform, [transform EXCEPT !.translateX = Whole(1)]}

\* the page renders the same preset object again, as its handlers do:
\* after a mousemove that set translateX, or with the transform unchanged
RfAgain ==
  /\ rf.pc = "done"
  /\ rf.renders < MaxRenders
  /\ \E transform \in RfMoves(rf.preset.finalTransform) :
       rf' = RfEntered([rf.preset EXCEPT !.finalTransform = transform], rf.canvas,
                       rf.first, rf.renders + 1, rf.dryCalls)
  /\ UNCHANGED <<sv, af, sc, os, ui>>

Next ==
  \/ RfAgain
  \/ RfStart
  \/ RfBurnInStep
  \/ RfBurnInDone
  \/ RfDryRunStep
  \/ RfDryRunDone
  \/ RfMainStep
  \/ RfFinalize

Init == RfInit

Spec == Init /\ [][Next]_vars

----------------------------------------------------------------------------
(* main.ts: the iterations input and the drag handlers of the canvas *)

MaxEvents == 4

DRAG_ITERATIONS == 20000

\* randomInt(50000, 200000) of randomFlamePreset: the ends of the range
UiIterations == {50000, 200000}

\* parseInt(iterInput.value, 10) || 0 for the values typed: nothing, 5000,
\* 20000, 60000
UiTyped == {0, 5000, 20000, 60000}

\* (ev.offsetX, ev.offsetY) of a mouse event
UiPointer == {<<0, 0>>, <<3, 1>>}

\* the page after the module has run: the first render and the drag state
UiInit ==
  \E iterations \in UiIterations :
    /\ ui = [pc |-> "page",
             preset |-> [iterations |-> iterations, origIterations |-> Undef,
                         translateX |-> 0, translateY |-> 0],
             isDragging |-> FALSE, dragStartX |-> 0, dragStartY |-> 0,
             origTranslateX |-> 0, origTranslateY |-> 0,
             normalIterations |-> iterations,
             rendered |-> [iterations |-> iterations, origIterations |-> Undef],
             settled |-> iterations, events |-> 0]
    /\ sv = SvIdle /\ af = AfIdle /\ sc = ScIdle /\ rf = RfIdle /\ os = OsIdle

\* renderFlame(preset, canvas) at the end of a handler
UiRendered(page) ==
  [page EXCEPT !.rendered = [iterations |-> page.preset.iterations,
                             origIterations |-> page.preset.origIterations],
               !.events = @ + 1]

\* Math.min(a, b)
MathMin(a, b) == IF a < b THEN a ELSE b

\* the input handler of the iterations field
UiIterInput ==
  /\ ui.pc = "page" /\ ui.events < MaxEvents
  /\ \E typed \in UiTyped :
       ui' = UiRendered([ui EXCEPT !.preset.iterations = typed,
                                   !.settled = IF ui.isDragging THEN @ ELSE typed])
  /\ UNCHANGED <<sv, af, sc, rf, os>>

\* canvas mousedown
UiMouseDown ==
  /\ ui.pc = "page" /\ ui.events < MaxEvents
  /\ \E at \in UiPointer :
       ui' = UiRendered([ui EXCEPT
               !.isDragging = TRUE,
               !.dragStartX = at[1], !.dragStartY = at[2],
               !.origTranslateX = ui.preset.translateX,
               !.origTranslateY = ui.preset.translateY,
               !.normalIterations = ui.preset.iterations,
               !.preset.origIterations = ui.preset.iterations,
               !.preset.iterations = MathMin(ui.preset.iterations, DRAG_ITERATIONS),
               !.settled = IF ui.isDragging THEN @ ELSE ui.preset.iterations])
  /\ UNCHANGED <<sv, af, sc, rf, os>>

\* canvas mousemove
UiMouseMove ==
  /\ ui.pc = "page" /\ ui.events < MaxEvents
  /\ ui.isDragging
  /\ \E at \in UiPointer :
       ui' = UiRendered([ui EXCEPT
               !.preset.translateX = ui.origTranslateX + (at[1] - ui.dragStartX),
               !.preset.translateY = ui.origTranslateY - (at[2] - ui.dragStartY)])
  /\ UNCHANGED <<sv, af, sc, rf, os>>

\* the body that mouseup and mouseleave share
UiDragEnded ==
  UiRendered([ui EXCEPT !.isDragging = FALSE,
                        !.preset.iterations = ui.normalIterations,
                        !.preset.origIterations = Undef])

\* canvas mouseup
UiMouseUp ==
  /\ ui.pc = "page" /\ ui.events < MaxEvents
  /\ ui.isDragging
  /\ ui' = UiDragEnded
  /\ UNCHANGED <<sv, af, sc, rf, os>>

\* canvas mouseleave
UiMouseLeave ==
  /\ ui.pc = "page" /\ ui.events < MaxEvents
  /\ ui.isDragging
  /\ ui' = UiDragEnded
  /\ UNCHANGED <<sv, af, sc, rf, os>>

UiNext == UiIterInput \/ UiMouseDown \/ UiMouseMove \/ UiMouseUp \/ UiMouseLeave

SpecDrag == UiInit /\ [][UiNext]_vars

----------------------------------------------------------------------------
(* Properties of the safety wrapper (SpecSv) *)

SvNonFiniteInput == ~IsFinite(sv.x) \/ ~IsFinite(sv.y)
SvRawFailed == sv.raw.thrown \/ ~IsFinite(sv.raw.vx) \/ ~IsFinite(sv.raw.vy)
Origin == Returned(0, 0)

\* C5: for every registry entry and every input, finite or not, the wrapped
\* variation returns a pair of finite numbers and never throws; it returns
\* exactly (0,0) when the raw variation throws or returns a non-finite
\* coordinate, and the raw result unchanged otherwise.
C5_WrapperFiniteOrOrigin ==
  sv.pc = "done" =>
    /\ ~sv.out.thrown
    /\ IsFinite(sv.out.vx) /\ IsFinite(sv.out.vy)
    /\ SvRawFailed => sv.out = Origin
    /\ ~SvRawFailed => sv.out = sv.raw

\* a raw variation has thrown and the wrapper has answered
C5_Witness == sv.pc = "done" /\ sv.raw.thrown /\ sv.out = Origin

\* C6 as stated: a non-finite input coordinate always yields exactly (0,0).
C6_NonFiniteInputGivesOrigin ==
  (sv.pc = "done" /\ SvNonFiniteInput) => sv.out = Origin

\* the entries whose raw result is non-finite on every non-finite input
Propagating == {"linear", "sinusoidal", "mirrorx", "mirrory", "bent"}

\* C6 amended: a non-finite input coordinate always yields a finite pair and
\* never raises; the pair is exactly (0,0) for the entries that propagate the
\* non-finite input (linear, sinusoidal, mirrorx, mirrory, bent), while blur
\* and the escape-time warps return their raw result whenever it is finite.
C6_NonFiniteInputFinite ==
  (sv.pc = "done" /\ SvNonFiniteInput) =>
    /\ ~sv.out.thrown
    /\ IsFinite(sv.out.vx) /\ IsFinite(sv.out.vy)
    /\ sv.name \in Propagating => sv.out = Origin
    /\ sv.name \notin Propagating =>
         sv.out = (IF SvRawFailed THEN Origin ELSE sv.raw)

\* a warp has answered a non-finite input with a point other than (0,0)
C6_Witness ==
  /\ sv.pc = "done"
  /\ SvNonFiniteInput
  /\ sv.name = "mandelbrotWarp"
  /\ sv.out # Origin

----------------------------------------------------------------------------
(* Properties of the composer (SpecAf) *)

AfDone == af.pc = "done"
AfX0 == AffineX(af.fn.affine, af.x, af.y)
AfY0 == AffineY(af.fn.affine, af.x, af.y)
Within(v, limit) == IsFinite(v) /\ v >= Whole(-limit) /\ v <= Whole(limit)
Ok(x, y) == [kind |-> "ok", x |-> x, y |-> y]
IdentityLinear == af.fn.affine = IdentityAffine
                  /\ af.fn.variations = <<Entry("linear", Whole(1))>>

\* C3 as stated: the identity affine with {linear: 1} returns exactly (x, y)
\* for any input point (here: any point with finite coordinates).
C3_IdentityAnyPoint ==
  (AfDone /\ IdentityLinear /\ IsFinite(af.x) /\ IsFinite(af.y))
    => af.ret = Ok(af.x, af.y)

\* C3 amended: the identity affine with {linear: 1} returns exactly (x, y)
\* for every input point with both coordinates finite and within [-100, 100].
C3_IdentityWithinClamp ==
  (AfDone /\ IdentityLinear /\ Within(af.x, CLAMP_LIMIT) /\ Within(af.y, CLAMP_LIMIT))
    => af.ret = Ok(af.x, af.y)

\* the module's own self-test, (3, 4), and a point on the clamp limit
C3_Witness ==
  /\ AfDone /\ IdentityLinear
  /\ af.x = Whole(100) /\ af.y = Whole(4)
  /\ af.ret = Ok(Whole(100), Whole(4))

OnlyLinear == Len(af.fn.variations) = 1
              /\ af.fn.variations[1].name = "linear"
              /\ af.fn.variations[1].weight # 0
LinearWeight == af.fn.variations[1].weight

\* a*x + b*y + c and d*x + e*y + f of the call, written out
ImageX == FAdd(FAdd(FMul(af.fn.affine[1], af.x), FMul(af.fn.affine[2], af.y)),
               af.fn.affine[3])
ImageY == FAdd(FAdd(FMul(af.fn.affine[4], af.x), FMul(af.fn.affine[5], af.y)),
               af.fn.affine[6])

\* C4 as stated: {linear: w} returns (w*(a*x+b*y+c), w*(d*x+e*y+f)) for every
\* input whose affine image lies within [-100, 100] in both coordinates.
C4_LinearWeightAnyWeight ==
  (AfDone /\ OnlyLinear /\ Within(ImageX, CLAMP_LIMIT) /\ Within(ImageY, CLAMP_LIMIT))
    => af.ret = Ok(FMul(LinearWeight, ImageX), FMul(LinearWeight, ImageY))

\* C4 amended: {linear: w} returns (w*(a*x+b*y+c), w*(d*x+e*y+f)) for every
\* input whose affine image lies within [-100, 100] in both coordinates and
\* whose two products are finite (w times the image does not overflow).
C4_LinearWeightFinite ==
  (/\ AfDone /\ OnlyLinear
   /\ Within(ImageX, CLAMP_LIMIT) /\ Within(ImageY, CLAMP_LIMIT)
   /\ IsFinite(FMul(LinearWeight, ImageX)) /\ IsFinite(FMul(LinearWeight, ImageY)))
    => af.ret = Ok(FMul(LinearWeight, ImageX), FMul(LinearWeight, ImageY))

\* the module's second self-test: affine (2,0,1,0,3,2), {linear: 2}, (4, 5)
C4_Witness ==
  /\ AfDone
  /\ af.fn.affine = TestAffine
  /\ af.fn.variations = <<Entry("linear", Whole(2))>>
  /\ af.x = Whole(4) /\ af.y = Whole(5)
  /\ af.ret = Ok(Whole(18), Whole(34))

\* the map {toString: 2, linear: 3}: toString's output is not a number
SkippedThenLinear == af.fn.variations = <<Entry("toString", Whole(2)),
                                          Entry("linear", Whole(3))>>

\* C7: when the loop over the variations ends, a non-finite weighted sum in
\* either coordinate makes applyFlameFunction return the unclamped
\* affine-only point without throwing, a finite sum is returned as it is,
\* and a variation whose output is non-finite adds nothing to the sum.
C7_FallbackToAffine ==
  (AfDone /\ af.sum.kind = "ok") =>
    /\ af.ret.kind = "ok"
    /\ (~IsFinite(af.sum.x) \/ ~IsFinite(af.sum.y)) => af.ret = Ok(AfX0, AfY0)
    /\ (IsFinite(af.sum.x) /\ IsFinite(af.sum.y)) => af.ret = af.sum
    /\ (SkippedThenLinear /\ IsFinite(AfX0) /\ IsFinite(AfY0)) =>
         af.sum = Ok(FMul(Whole(3), Clamp(AfX0)), FMul(Whole(3), Clamp(AfY0)))

\* the weighted sum has overflowed and the finite affine point is returned
C7_Witness ==
  /\ AfDone /\ af.sum.kind = "ok"
  /\ af.sum.x = PosInf
  /\ af.ret.kind = "ok" /\ IsFinite(af.ret.x) /\ af.ret.x = AfX0

NamesUnregistered ==
  \E k \in 1..Len(af.fn.variations) :
    af.fn.variations[k].name \notin (Registered \cup Inherited)

NoneInherited ==
  \A k \in 1..Len(af.fn.variations) : af.fn.variations[k].name \notin Inherited

Offending(e) == e.weight # 0 /\ e.name \notin Registered /\ e.name # "toString"
FirstOffending ==
  LET ks == {k \in 1..Len(af.fn.variations) : Offending(af.fn.variations[k])}
  IN  IF ks = {} THEN 0 ELSE CHOOSE k \in ks : \A j \in ks : k <= j

----------------------------------------------------------------------------
(* Properties of StrategyContext.finalize (SpecCtx) *)

RECURSIVE SumHist(_, _)
SumHist(hist, n) == IF n = 0 THEN 0 ELSE SumHist(hist, n - 1) + hist[n - 1]

ScSamples == 1..Len(sc.ctx.xs)
ScFiniteSample(i) == IsFinite(sc.ctx.xs[i]) /\ IsFinite(sc.ctx.ys[i])
ScInGrid(i) ==
  LET px == GridX(sc.ctx, i)
      py == GridY(sc.ctx, i)
  IN  /\ IsFinite(px) /\ 0 <= px /\ px < Whole(highWidth(sc.ctx))
      /\ IsFinite(py) /\ 0 <= py /\ py < Whole(highHeight(sc.ctx))
ScHits == SumHist(sc.hist, highWidth(sc.ctx) * highHeight(sc.ctx))

\* the spans of the committed coordinates are finite
ScFiniteSpans ==
  \A i \in ScSamples, j \in ScSamples :
    /\ IsFinite(FSub(sc.ctx.xs[i], sc.ctx.xs[j]))
    /\ IsFinite(FSub(sc.ctx.ys[i], sc.ctx.ys[j]))

ScBlock(p) ==
  {c \in Cells(sc.ctx) :
     /\ (c % highWidth(sc.ctx)) \div sc.ctx.scale = p % sc.ctx.width
     /\ (c \div highWidth(sc.ctx)) \div sc.ctx.scale = p \div sc.ctx.width}
ScBlockHit(p) == \E c \in ScBlock(p) : sc.hist[c] > 0

\* the last finalize was handed a zero-initialised buffer
ScZeroed == sc.before = [p \in Pixels(sc.ctx) |-> <<0, 0, 0, 0>>]

\* C11: after finalize on a zero-initialised buffer a pixel has alpha 255
\* exactly when some cell of its supersample by supersample block was hit,
\* and every other pixel has all four bytes 0.
C11_AlphaIffBlockHit ==
  sc.pc = "open" /\ sc.finalized /\ ScZeroed =>
    \A p \in Pixels(sc.ctx) :
      /\ sc.outputBuffer[p][4] = 255 <=> ScBlockHit(p)
      /\ ~ScBlockHit(p) => sc.outputBuffer[p] = <<0, 0, 0, 0>>

\* a zero-initialised buffer of a supersampled context is finalized: one
\* pixel is opaque although the first cell of its block was not hit, another
\* pixel is left at zero
C11_Witness ==
  /\ sc.pc = "open" /\ sc.finalized /\ ScZeroed
  /\ sc.ctx.scale = 2
  /\ \E p \in Pixels(sc.ctx) :
       /\ sc.outputBuffer[p][4] = 255
       /\ sc.hist[BlockCells(sc.ctx, p % sc.ctx.width, p \div sc.ctx.width)[1]] = 0
  /\ \E p \in Pixels(sc.ctx) : sc.outputBuffer[p] = <<0, 0, 0, 0>>

\* C12 as stated: finalize writes the bytes of every pixel, so the buffer
\* after finalize does not depend on what it held before: two buffers with
\* different earlier contents are equal after the same finalize.
C12_BufferIndependentOfPrior ==
  sc.pc = "open" /\ sc.finalized => sc.outputBuffer = sc.twin

\* the last finalize followed another one with no commit in between, into
\* the same buffer or into a buffer with the same initial content
ScRepeated ==
  /\ sc.pc = "open" /\ sc.finalized /\ sc.previous # NoRun
  /\ sc.before \in {sc.previous.before, sc.previous.after}

\* C13: two calls of finalize with no commit in between, into the same
\* buffer or into buffers with equal initial contents, leave the same bytes.
C13_SecondFinalizeSameBytes ==
  ScRepeated => sc.outputBuffer = sc.previous.after

\* two samples are finalized twice into the buffer the caller holds, which
\* has an opaque pixel from the first call
C13_Witness ==
  /\ ScRepeated
  /\ Len(sc.ctx.xs) = 2
  /\ sc.before = sc.previous.after /\ sc.before # sc.previous.before
  /\ \E p \in Pixels(sc.ctx) : sc.outputBuffer[p][4] = 255

----------------------------------------------------------------------------
(* Properties of the orbit-colouring strategies (SpecOrbit) *)

OsOpen == os.pc = "open"
OsOrbits == os.strategy.orbits
OsTs == os.strategy.last.ts
InUnit(t) == IsFinite(t) /\ 0 <= t /\ t <= Whole(1)

\* C14 as stated: two calls of finalize on one orbit-colouring strategy with
\* no accumulate in between, into buffers with equal initial contents, leave
\* the same bytes.
C14_OrbitFinalizeTwiceSameBytes ==
  OsOpen /\ os.runs >= 2 => os.outputBuffer = os.previous

\* the pending samples that make finalize flush the trailing orbit
OsThreshold == IF os.strategy.mode \in {"orbit-angle", "orbit-distance"} THEN 1 ELSE 2

\* the last `pending` samples that were fed
OsTrailing == SubSeq(os.fed, Len(os.fed) - os.pending + 1, Len(os.fed))

\* C16: when finalize finds at least one pending sample (orbit-angle,
\* orbit-distance) or at least two (angular-momentum, radial-flux), the
\* pending samples become the last orbit before the colours are computed:
\* that orbit has a palette position and its samples are committed in the
\* same call, and the pending buffer is empty afterwards.
C16_TrailingOrbitFlushed ==
  OsOpen /\ os.runs >= 1 /\ os.pending >= OsThreshold =>
    /\ os.strategy.xs = <<>> /\ os.strategy.ys = <<>>
    /\ Len(OsOrbits) > 0
    /\ OsOrbits[Len(OsOrbits)].xs = [i \in 1..os.pending |-> OsTrailing[i][1]]
    /\ OsOrbits[Len(OsOrbits)].ys = [i \in 1..os.pending |-> OsTrailing[i][2]]
    /\ Len(OsTs) = Len(OsOrbits)
    /\ Len(os.strategy.context.xs) = Len(os.fed)

\* finalize of an angular-momentum strategy with the default orbit length
\* has flushed three pending samples as its only orbit
C16_Witness ==
  /\ OsOpen /\ os.runs = 1
  /\ os.strategy.mode = "angular-momentum"
  /\ os.pending = 3
  /\ Len(OsOrbits) = 1 /\ Len(OsOrbits[1].xs) = 3
  /\ os.strategy.xs = <<>>

\* finalize has run on an angular-momentum or radial-flux strategy without
\* an explicit scale and with at least one orbit
OsAutoScaled ==
  /\ OsOpen /\ os.runs >= 1
  /\ os.strategy.mode \in {"angular-momentum", "radial-flux"}
  /\ os.strategy.scale = Undef
  /\ Len(OsOrbits) > 0

OsTotals == {OsOrbits[k].t : k \in 1..Len(OsOrbits)}

\* the scale is the largest magnitude of the totals, every palette position
\* is in [0, 1] and an orbit of the largest magnitude has position 1
OsScaledByMax ==
  /\ os.strategy.last.scale \in {FAbs(t) : t \in OsTotals}
  /\ \A t \in OsTotals : FAbs(t) <= os.strategy.last.scale
  /\ \A k \in 1..Len(OsOrbits) :
       /\ InUnit(OsTs[k])
       /\ FAbs(OsOrbits[k].t) = os.strategy.last.scale => OsTs[k] = Whole(1)

OsOrbitOf(i) == ((i - 1) \div 2) + 1

\* C18 as stated: in orbit-angle and orbit-distance, when all coordinates
\* are finite, every flushed orbit has a palette position in [0, 1], and
\* every sample is committed with the palette colour of the position of its
\* orbit.
C18_OrbitPositionInUnit ==
  /\ OsOpen /\ os.runs = 1
  /\ os.strategy.mode \in {"orbit-angle", "orbit-distance"}
  /\ \A i \in 1..Len(os.fed) : IsFinite(os.fed[i][1]) /\ IsFinite(os.fed[i][2])
  => /\ \A k \in 1..Len(OsOrbits) : InUnit(OsOrbits[k].t) /\ InUnit(OsTs[k])
     /\ \A i \in 1..Len(os.fed) :
          os.strategy.context.cols[i] =
            paletteFn(os.strategy.palette, OsOrbits[OsOrbitOf(i)].t)

\* the coordinates that the context has received, in the order of the calls
OsCommitted ==
  [i \in 1..Len(os.strategy.context.xs) |->
     <<os.strategy.context.xs[i], os.strategy.context.ys[i]>>]

\* the samples that the first finalize has to commit: all that were fed,
\* without the last one when angular-momentum or radial-flux found exactly
\* one pending sample
OsDue ==
  IF os.strategy.mode \in {"angular-momentum", "radial-flux"} /\ os.pending = 1
    THEN SubSeq(os.fed, 1, Len(os.fed) - 1)
  ELSE os.fed

\* C25: when the first finalize has returned, the context has received one
\* commitSample per accumulated sample, in the order of accumulation and
\* with the accumulated coordinates (histogram, orbit-angle,
\* orbit-distance); angular-momentum and radial-flux do the same except that
\* a pending trailing orbit of exactly one sample is not committed. Before
\* finalize no orbit strategy has committed anything, and histogram has
\* committed every sample fed so far.
C25_SamplesConserved ==
  /\ OsOpen /\ os.runs = 0 =>
       OsCommitted = IF os.strategy.mode = "histogram" THEN os.fed ELSE <<>>
  /\ OsOpen /\ os.runs = 1 => OsCommitted = OsDue

\* the first finalize of a radial-flux strategy of orbit length 2 that was
\* fed three samples has committed the first two
C25_Witness ==
  /\ OsOpen /\ os.runs = 1
  /\ os.strategy.mode = "radial-flux"
  /\ Len(os.fed) = 3 /\ os.pending = 1
  /\ Len(OsCommitted) = 2
  /\ OsCommitted = SubSeq(os.fed, 1, 2)

\* the samples of the orbits in the order of the orbits, from orbit k on
RECURSIVE OsFlat(_)
OsFlat(k) ==
  IF k > Len(OsOrbits) THEN <<>>
  ELSE [i \in 1..Len(OsOrbits[k].xs) |-> <<OsOrbits[k].xs[i], OsOrbits[k].ys[i]>>]
       \o OsFlat(k + 1)

\* the pending samples
OsCurrent ==
  [i \in 1..Len(os.strategy.xs) |-> <<os.strategy.xs[i], os.strategy.ys[i]>>]

\* C26: with an orbit length of at least 1, after each accumulate fewer
\* than orbitLength samples are pending, every orbit that was flushed during
\* accumulation holds exactly orbitLength samples, after finalize only the
\* last orbit may be shorter, and the orbits followed by the pending samples
\* are the accumulated samples in order, so that no sample is in two orbits.
C26_OrbitsPartitionSamples ==
  OsOpen /\ os.strategy.mode # "histogram" /\ os.strategy.orbitLength >= 1 =>
    /\ OsFlat(1) \o OsCurrent = os.fed
    /\ os.runs = 0 =>
         /\ Len(os.strategy.xs) < os.strategy.orbitLength
         /\ \A k \in 1..Len(OsOrbits) : Len(OsOrbits[k].xs) = os.strategy.orbitLength
    /\ os.runs >= 1 =>
         /\ \A k \in 1..(Len(OsOrbits) - 1) :
              Len(OsOrbits[k].xs) = os.strategy.orbitLength
         /\ Len(OsOrbits) > 0 =>
              /\ Len(OsOrbits[Len(OsOrbits)].xs) >= 1
              /\ Len(OsOrbits[Len(OsOrbits)].xs) <= os.strategy.orbitLength

\* an orbit-angle strategy of orbit length 2 that was fed three samples has
\* flushed one whole orbit during accumulation and a shorter one at finalize
C26_Witness ==
  /\ OsOpen /\ os.runs = 1
  /\ os.strategy.mode = "orbit-angle" /\ os.strategy.orbitLength = 2
  /\ Len(os.fed) = 3
  /\ Len(OsOrbits) = 2
  /\ Len(OsOrbits[1].xs) = 2 /\ Len(OsOrbits[2].xs) = 1

----------------------------------------------------------------------------
(* Properties of renderFlame (Spec) *)

RfFunctions == rf.preset.functions
RfCommitted == rf.strategy.context.cols

\* C1: in one renderFlame call accumulate is never called during the burn-in
\* loop or the dry run, the composer has run exactly burnIn times in the
\* burn-in loop once accumulate is called, accumulate is called at most
\* `iterations` times, finalize is called at most once and only after
\* exactly `iterations` calls of accumulate, and a call that returns has
\* called accumulate `iterations` times and finalize once.
C1_AccumulateAndFinalizeCounts ==
  /\ rf.pc \in {"start", "burnIn", "dryRun"} => rf.calls.accumulate = 0
  /\ rf.calls.burnIn <= BurnIn(rf.preset)
  /\ rf.calls.accumulate > 0 => rf.calls.burnIn = BurnIn(rf.preset)
  /\ rf.pc \in {"main", "done"} => rf.calls.burnIn = BurnIn(rf.preset)
  /\ rf.calls.accumulate <= Iterations(rf.preset)
  /\ rf.calls.finalize <= 1
  /\ rf.calls.finalize = 1 => rf.calls.accumulate = Iterations(rf.preset)
  /\ rf.pc = "done" =>
       /\ rf.calls.finalize = 1
       /\ rf.calls.accumulate = Iterations(rf.preset)
       /\ Len(RfCommitted) = Iterations(rf.preset)

\* a render with a burn-in, a dry run and a main loop has returned
C1_Witness ==
  /\ rf.pc = "done"
  /\ rf.calls.burnIn = MaxBurn /\ MaxBurn > 0
  /\ rf.calls.dryRun = MaxIter
  /\ rf.calls.accumulate = MaxIter /\ MaxIter > 1
  /\ rf.calls.finalize = 1

\* the functions whose cumulative probability exceeds the last draw
RfQualifying ==
  {k \in 1..Len(RfFunctions) : FLt(rf.sel.r, rf.cumProbs[k])}

\* C2: after a selection over a non-empty function list the selected index
\* is the smallest i with r < cumProbs[i], or n-1 when no index qualifies;
\* it lies in 0..n-1 and it is the funcIndex of the sample that the main
\* loop accumulates.
C2_SelectionIsFirstExceeding ==
  rf.sel.r # Undef /\ Len(RfFunctions) > 0 =>
    /\ rf.sel.index \in 0..(Len(RfFunctions) - 1)
    /\ RfQualifying # {} =>
         /\ rf.sel.index + 1 \in RfQualifying
         /\ \A k \in RfQualifying : rf.sel.index + 1 <= k
    /\ RfQualifying = {} => rf.sel.index = Len(RfFunctions) - 1
    /\ rf.pc \in {"main", "done"} /\ rf.calls.accumulate > 0 =>
         RfCommitted[Len(RfCommitted)] = rf.strategy.funcColors[rf.sel.index + 1]

\* the main loop has selected the second of two functions by a draw between
\* the two cumulative probabilities
C2_Witness ==
  /\ rf.pc = "main" /\ rf.calls.accumulate > 0
  /\ Len(RfFunctions) = 2
  /\ rf.sel.index = 1
  /\ ~FLt(rf.sel.r, rf.cumProbs[1]) /\ FLt(rf.sel.r, rf.cumProbs[2])

\* the preset names a registered strategy and a registered palette
RfKnownNames ==
  /\ rf.preset.mode \in StrategyRegistry \cup {"undefined"}
  /\ rf.preset.palette.kind = "name" => rf.preset.palette.name \in PaletteRegistry

\* C9: when renderFlame has failed, no destination buffer exists, finalize
\* was not called and nothing was drawn on the canvas; and a render that
\* has written pixels named a registered strategy and a registered palette.
C9_FailureBeforeAnyWrite ==
  /\ rf.pc = "failed" =>
       /\ rf.imageData = NoImage
       /\ rf.calls.finalize = 0
       /\ rf.canvas.pixels = createImageData(rf.preset.width, rf.preset.height)
  /\ rf.pc # "idle" /\ (rf.imageData # NoImage \/ rf.calls.finalize > 0) => RfKnownNames

\* an unregistered variation is reached in the main loop after a sample was
\* accumulated
C9_Witness ==
  /\ rf.pc = "failed" /\ rf.error = "unknown variation"
  /\ rf.calls.main > 1 /\ rf.calls.accumulate > 0
  /\ rf.imageData = NoImage

\* the render of the preset with one function that moves no point has
\* returned
RfOnePointDone ==
  /\ rf.pc = "done"
  /\ rf.entry.width = 10 /\ rf.entry.height = 10
  /\ rf.entry.functions = <<Fn(IdentityAffine, <<Entry("linear", Whole(1))>>, Whole(1))>>
  /\ rf.entry.burnIn = 0 /\ rf.entry.mode = "histogram"
  /\ rf.entry.iterations # Undef /\ rf.entry.iterations >= 1

\* the pixels with alpha 255 in the image of the render
RfOpaque == {p \in DOMAIN rf.imageData : rf.imageData[p][4] = 255}

\* the four pixels around the centre of a ten by ten image
RfCentre == {44, 45, 54, 55}

\* C15 as stated: the render of the one-function identity preset (burnIn 0,
\* ten by ten pixels, histogram mode, iterations >= 1) accumulates every
\* sample at (0, 0) and leaves exactly one pixel with alpha 255, at the
\* centre of the image, and alpha 0 in every other pixel.
C15_OneHotPixelAtCentre ==
  RfOnePointDone =>
    /\ \A i \in 1..Len(RfCommitted) :
         rf.strategy.context.xs[i] = 0 /\ rf.strategy.context.ys[i] = 0
    /\ \E p \in RfCentre : RfOpaque = {p}
    /\ \A p \in DOMAIN rf.imageData : rf.imageData[p][4] \in {0, 255}

\* C15 amended: the render accumulates every sample at the start point that
\* was drawn in [-1, 1) x [-1, 1), and leaves exactly one pixel with alpha
\* 255, in column 0 of the last row (the bottom-left corner), and alpha 0
\* in every other pixel.
C15_OneHotPixelAtBottomLeft ==
  RfOnePointDone =>
    /\ Len(RfCommitted) = rf.entry.iterations
    /\ \A i \in 1..Len(RfCommitted) :
         /\ rf.strategy.context.xs[i] = rf.strategy.context.xs[1]
         /\ rf.strategy.context.ys[i] = rf.strategy.context.ys[1]
         /\ Whole(-1) <= rf.strategy.context.xs[i] /\ rf.strategy.context.xs[i] < Whole(1)
         /\ Whole(-1) <= rf.strategy.context.ys[i] /\ rf.strategy.context.ys[i] < Whole(1)
    /\ RfOpaque = {90}
    /\ \A p \in DOMAIN rf.imageData : rf.imageData[p][4] \in {0, 255}

\* two samples at the start point (-1, -1) were rendered into the corner
C15_Witness ==
  /\ RfOnePointDone
  /\ Len(RfCommitted) = MaxIter /\ MaxIter > 1
  /\ rf.strategy.context.xs = [i \in 1..MaxIter |-> Whole(-1)]
  /\ rf.strategy.context.ys = [i \in 1..MaxIter |-> Whole(-1)]
  /\ rf.imageData[90][4] = 255 /\ rf.imageData[90][1] > 0
  /\ rf.imageData[55] = <<0, 0, 0, 0>>

\* the final transform of the preset as it was passed is not the identity
RfNonIdentity ==
  \/ Coalesce(rf.entry.finalTransform.rotation, 0) # 0
  \/ Coalesce(rf.entry.finalTransform.scale, Whole(1)) # Whole(1)
  \/ Coalesce(rf.entry.finalTransform.translateX, 0) # 0
  \/ Coalesce(rf.entry.finalTransform.translateY, 0) # 0

\* C19: a render enters the dry run exactly when the final transform is
\* not the identity and the preset carries no domainBounds; during the dry
\* run accumulate is not called and (x, y) stays at the end point of the
\* burn-in loop, from which the main loop starts.
C19_DryRunIffTransformWithoutBounds ==
  /\ rf.pc \in {"dryRun", "main", "done"} =>
       (rf.ranDry <=> RfNonIdentity /\ ~rf.entry.domainBounds.present)
  /\ rf.pc \in {"start", "burnIn"} => ~rf.ranDry /\ rf.calls.dryRun = 0
  /\ rf.pc # "idle" /\ rf.calls.dryRun > 0 => rf.ranDry
  /\ rf.pc = "dryRun" =>
       /\ rf.calls.accumulate = 0
       /\ <<rf.x, rf.y>> = rf.burnEnd
  /\ rf.pc = "main" /\ rf.calls.main = 0 =>
       /\ rf.calls.accumulate = 0
       /\ <<rf.x, rf.y>> = rf.burnEnd

\* a render with a translation only and no bounds has finished a dry run
\* that moved its own point, and the main loop is about to start at the
\* end point of the burn-in loop
C19_Witness ==
  /\ rf.pc = "main" /\ rf.calls.main = 0
  /\ rf.ranDry /\ rf.calls.dryRun > 0
  /\ rf.entry.finalTransform.rotation = Undef
  /\ rf.entry.finalTransform.translateX = Whole(1)
  /\ <<rf.tx, rf.ty>> # <<rf.x, rf.y>>
  /\ <<rf.x, rf.y>> = rf.burnEnd

\* the dry run of the render has ended
RfDryRunEnded == rf.pc \in {"main", "done"} /\ rf.ranDry

\* C20 as stated: a dry run performs exactly as many iterations as the main
\* loop of the same render.
C20_DryRunAsLongAsMainLoop ==
  RfDryRunEnded => rf.calls.dryRun = Iterations(rf.entry)

\* C20 amended: a dry run performs _origIterations iterations when the
\* preset has that field, and otherwise as many as the main loop.
C20_DryRunOrigIterations ==
  RfDryRunEnded =>
    rf.calls.dryRun = IF rf.entry.origIterations = Undef THEN Iterations(rf.entry)
                      ELSE rf.entry.origIterations

\* a render with _origIterations above iterations has returned after a
\* longer dry run than main loop
C20_Witness ==
  /\ rf.pc = "done" /\ rf.ranDry
  /\ rf.entry.origIterations = MaxIter /\ rf.entry.iterations = 1
  /\ rf.calls.dryRun = MaxIter /\ rf.calls.main = 1 /\ MaxIter > 1


----------------------------------------------------------------------------
(* Further properties of renderFlame (Spec) *)

\* C21: when a call of renderFlame has returned, every field of the preset,
\* domainBounds included, has the value it had when the call was entered.
C21_PresetUnchangedByRender == rf.pc = "done" => rf.preset = rf.entry

\* the bounds that the dry run of this call has found
RfDiscovered == [rf.bounds EXCEPT !.present = TRUE]

\* C21 (amended): when a call of renderFlame has returned, every field of the
\* preset except domainBounds has the value it had when the call was entered;
\* domainBounds is unchanged when the call ran no dry run and holds the bounds
\* that the dry run found when it ran one.
C21_OnlyDomainBoundsWritten ==
  rf.pc = "done" =>
    /\ \A f \in DOMAIN rf.entry \ {"domainBounds"} : rf.preset[f] = rf.entry[f]
    /\ ~rf.ranDry => rf.preset.domainBounds = rf.entry.domainBounds
    /\ rf.ranDry => rf.preset.domainBounds = RfDiscovered

\* a render with a dry run has returned and the preset holds finite bounds
C21_Witness ==
  /\ rf.pc = "done"
  /\ rf.ranDry
  /\ ~rf.entry.domainBounds.present
  /\ rf.preset.domainBounds.present
  /\ IsFinite(rf.preset.domainBounds.minX)
  /\ FLt(rf.preset.domainBounds.minX, rf.preset.domainBounds.maxX)


\* '#' followed by exactly three or exactly six hexadecimal digits
WellFormedHex(hex) ==
  /\ Len(hex) \in {4, 7}
  /\ hex[1] = "#"
  /\ \A k \in 2..Len(hex) : IsHexDigit(hex[k])

\* the call got as far as creating the strategy of a registered mode with a
\* palette given as a non-empty array of colours
RfArrayPaletteBuilt ==
  /\ rf.pc # "start"
  /\ rf.canvas.has2d
  /\ rf.entry.mode \in {"undefined", "histogram"}
  /\ rf.entry.palette.kind = "array"
  /\ Len(rf.entry.palette.colors) > 0

\* C22: a palette built from an array with an entry that is not '#' followed
\* by exactly 3 or exactly 6 hexadecimal digits fails with 'Invalid hex color'
\* when it is built, before any sample is coloured.
C22_MalformedEntryFails ==
  (/\ RfArrayPaletteBuilt
   /\ \E k \in 1..Len(rf.entry.palette.colors) :
        ~WellFormedHex(rf.entry.palette.colors[k]))
    => rf.pc = "failed" /\ rf.error = "invalid hex color"


\* the function list is not empty and every function has probability 0
RfAllZero ==
  /\ Len(RfFunctions) > 0
  /\ \A k \in 1..Len(RfFunctions) : RfFunctions[k].probability = 0

\* C23: when every function has probability 0 and the list is not empty, the
\* total is 0, every draw of the burn-in, the dry run and the main loop is
\* the product 0 (nothing is divided by the total), every selection is the
\* last function, and no selection raises an error.
C23_ZeroTotalSelectsLast ==
  RfAllZero /\ rf.pc \notin {"start"} /\ rf.canvas.has2d =>
    /\ rf.totalProb = 0
    /\ rf.error # "type error"
    /\ rf.sel.r # Undef =>
         /\ rf.sel.r = 0
         /\ rf.sel.index = Len(RfFunctions) - 1
    /\ rf.pc = "done" =>
         \A k \in 1..Len(RfCommitted) :
           RfCommitted[k] = rf.strategy.funcColors[Len(RfFunctions)]

\* a render of two functions of probability 0 has drawn in the burn-in, in
\* the dry run and in the main loop and has returned
C23_Witness ==
  /\ RfAllZero /\ Len(RfFunctions) = 2
  /\ rf.pc = "done"
  /\ rf.calls.burnIn > 0 /\ rf.calls.dryRun > 0 /\ rf.calls.main > 0
  /\ rf.sel.index = 1
  /\ Len(RfCommitted) > 0


----------------------------------------------------------------------------
(* Further properties of the raw variations (SpecSv) *)

EscapeTimeWarps == {"mandelbrotWarp", "juliaWarp", "burningShipWarp"}

\* C24: a raw escape-time warp that is called with a parameter object stops
\* at the first step with a non-finite result and returns the last finite
\* state, so both coordinates that it returns are finite.
C24_WarpReturnsLastFiniteState ==
  sv.pc = "done" /\ sv.name \in EscapeTimeWarps /\ ~sv.raw.thrown =>
    IsFinite(sv.raw.vx) /\ IsFinite(sv.raw.vy)


\* the call has a final transform to apply and the caller built the preset
\* without domainBounds
RfTransformNoGivenBounds ==
  /\ rf.pc \in {"main", "done"}
  /\ RfNonIdentity
  /\ ~rf.first.domainBounds.present

RfDrawBelowTotal ==
  /\ rf.sel.r # Undef
  /\ \A k \in 1..Len(RfFunctions) : FGe(RfFunctions[k].probability, 0)
  /\ FGt(rf.totalProb, 0)
  /\ FGe(rf.sel.r, 0) /\ FLt(rf.sel.r, rf.totalProb)

\* C28: when no probability is negative, the total is positive and the draw
\* lies in [0, totalProb), the function that a draw of the burn-in, the dry
\* run or the main loop selects has a probability other than 0.
C28_ZeroProbabilityNeverSelected ==
  RfDrawBelowTotal =>
    /\ rf.sel.index \in 0..(Len(RfFunctions) - 1)
    /\ RfFunctions[rf.sel.index + 1].probability # 0

\* a render whose last function has probability 0 has drawn in the burn-in,
\* in the dry run and in the main loop, each time below the total, and has
\* returned
C28_Witness ==
  /\ rf.pc = "done" /\ RfDrawBelowTotal
  /\ Len(RfFunctions) = 2 /\ RfFunctions[2].probability = 0
  /\ rf.calls.burnIn > 0 /\ rf.calls.dryRun > 0 /\ rf.calls.main > 0
  /\ rf.sel.index = 0


----------------------------------------------------------------------------
(* Further properties of the context (SpecCtx) *)

\* every finite coordinate stays finite when the offset is added
ScOffsetExact ==
  \A i \in ScSamples :
    /\ IsFinite(sc.ctx.xs[i]) => IsFinite(FAdd(sc.ctx.xs[i], sc.offset[1]))
    /\ IsFinite(sc.ctx.ys[i]) => IsFinite(FAdd(sc.ctx.ys[i], sc.offset[2]))

----------------------------------------------------------------------------
(* Properties of the drag handlers (SpecDrag) *)

\* C30: after any sequence of mousedown, mousemove, mouseup, mouseleave and
\* iterations-input events, when no drag is in progress preset.iterations
\* has the value it had before the drag started and preset._origIterations
\* is absent, and while a drag is in progress preset.iterations is at most
\* 20000.
C30_DragRestoresIterations ==
  ui.pc = "page" =>
    /\ ~ui.isDragging =>
         /\ ui.preset.iterations = ui.settled
         /\ ui.preset.origIterations = Undef
    /\ ui.isDragging => ui.preset.iterations <= DRAG_ITERATIONS

====
